---- MODULE Spec2Model ----
(***************************************************************************)
(* Album editing state store (src/src/contexts/AlbumContext.tsx) and the   *)
(* layout template engine (src/src/lib/layoutUtils.ts) of ZFamily-memories *)
(* as a state machine.                                                     *)
(*                                                                         *)
(* The store is a React provider: every operation below is one UI event    *)
(* handled after the previous state change was rendered, so the `album`    *)
(* a callback closes over is the stored aggregate.  Object identity of an  *)
(* aggregate (prev !== resolved in setAlbum) is carried by updatedAt, the  *)
(* stamp every freshly built aggregate gets (a logical clock).             *)
(***************************************************************************)
EXTENDS Integers, Sequences, FiniteSets, TLC

VARIABLES
    album,              \* useState<Album | null>            (line 208)
    history,            \* useState<Album[]>  the undo stack (line 209)
    redoStack,          \* useState<Album[]>                 (line 210)
    currentPageIndex,   \* useState(0)                       (line 211)
    selectedAssetId,    \* useState<string | null>           (line 212)
    nextId,             \* source of generateId() values
    clock,              \* number of aggregates built so far (new Date())
    upload,             \* the uploadMedia call in flight, if any
    lastOp,             \* the store operation invoked last
    made,               \* the linear chain A0..AN of aggregates (reference history)
    pos,                \* index in made of the aggregate linear history says is current
    branches,           \* edits made while the redo stack was not empty
    layoutIn,           \* arguments of the last calculateLayoutApplication call
    layoutOut,          \* its LayoutUpdate[] result
    callIn,             \* the call in flight: arguments of a pure call, a backend write
                        \* not yet resolved, the await uploadMedia is suspended on
    callOut,            \* what the call returned or that it threw; for uploadMedia the
                        \* awaits that resolved so far
    db,                 \* the backend's pages and assets tables
    saveCall,           \* the saveAlbum call: its position, its album, its backend calls
    isSaving            \* useState(false): set by saveAlbum and uploadMedia

storeVars == <<album, history, redoStack, currentPageIndex, selectedAssetId,
               nextId, clock, upload, lastOp, made, pos, branches>>
layoutVars == <<layoutIn, layoutOut>>
callVars == <<callIn, callOut>>
backendVars == <<db, saveCall, isSaving>>
otherVars == <<layoutIn, layoutOut, callIn, callOut, db, saveCall, isSaving>>
vars == <<album, history, redoStack, currentPageIndex, selectedAssetId,
          nextId, clock, upload, lastOp, made, pos, branches, layoutIn, layoutOut,
          callIn, callOut, db, saveCall, isSaving>>

(***************************************************************************)
(* Bounds of the model.                                                    *)
(***************************************************************************)
MaxEdits == 3        \* aggregates built in one run of Spec
MaxHistEdits == 22   \* aggregates built in one run of SpecHist
MaxBranches == 1     \* edits after an undo in one run of SpecHist
MaxFiles == 1        \* files of one uploadMedia batch
MaxMedia == 2        \* assets on the left page given to the layout engine
MaxSlots == 2        \* slots of a layout template
MaxRightMedia == 1   \* assets on the right page given to the layout engine
MaxSaveEdits == 3    \* aggregates built (loads and edits) in one run of SpecSave
MaxSaves == 2        \* saveAlbum calls in one run of SpecSave
MaxLoads == 2        \* fetchAlbum calls in one run of SpecFetch
MaxBatch == 2        \* files of one uploadMedia batch of SpecUpload
MaxOwnEdits == 4     \* aggregates built in one run of SpecOwn

(***************************************************************************)
(* Program constants.                                                      *)
(***************************************************************************)
HistKeep == 19       \* h.slice(-19): 19 kept + the pushed one = 20 snapshots
SpreadSplit == 100   \* slots with x >= 100 belong to the right page
DupOffset == 20      \* duplicateAsset offsets the copy by (+20, +20)
LibraryDrop == 50    \* moveFromLibrary places the asset at (50, 50)
NoId == 0            \* the id of a page built from `undefined` (no id at all)

(***************************************************************************)
(* Values.                                                                 *)
(***************************************************************************)
Null == [null |-> TRUE]
None == <<>>                        \* an absent optional value; <<v>> is a present one
Some(v) == <<v>>

Min(a, b) == IF a < b THEN a ELSE b
Max(a, b) == IF a > b THEN a ELSE b
Range(s) == {s[i] : i \in 1..Len(s)}
Last(s) == s[Len(s)]
Front(s) == SubSeq(s, 1, Len(s) - 1)

\* Array.prototype.slice(-n): the last n elements.
SliceLast(s, n) == IF Len(s) <= n THEN s ELSE SubSeq(s, Len(s) - n + 1, Len(s))

\* The start index Array.prototype.splice uses for the argument `start`.
SpliceStart(s, start) ==
    IF start < 0 THEN Max(Len(s) + start, 0) ELSE Min(start, Len(s))

\* [x] = arr.splice(start, 1): the removed elements (none when start >= length).
SpliceRemoved(s, start) ==
    LET b == SpliceStart(s, start)
    IN  IF b < Len(s) THEN <<s[b + 1]>> ELSE <<>>

\* arr after arr.splice(start, 1).
SpliceDelete(s, start) ==
    LET b == SpliceStart(s, start)
    IN  IF b < Len(s) THEN SubSeq(s, 1, b) \o SubSeq(s, b + 2, Len(s)) ELSE s

\* arr after arr.splice(start, 0, ...items).
SpliceInsert(s, start, items) ==
    LET b == SpliceStart(s, start)
    IN  SubSeq(s, 1, b) \o items \o SubSeq(s, b + 1, Len(s))

\* { ...obj, ...updates }
Merge(obj, updates) ==
    [k \in DOMAIN obj |-> IF k \in DOMAIN updates THEN updates[k] ELSE obj[k]]

(***************************************************************************)
(* Asset, Page, Album (lines 4-143).  Optional fields that no operation    *)
(* of the model reads or writes are left out.                              *)
(***************************************************************************)
MkAsset(id, type, url, x, y, w, h, z) ==
    [id |-> id, type |-> type, url |-> url, x |-> x, y |-> y,
     width |-> w, height |-> h, rotation |-> 0, zIndex |-> z,
     scale |-> None, opacity |-> None, fitMode |-> "undefined", crop |-> None,
     isPlaceholder |-> FALSE, lockAspectRatio |-> "undefined"]

MkPage(id, n, template, assets) ==
    [id |-> id, pageNumber |-> n, layoutTemplate |-> template,
     assets |-> assets, backgroundColor |-> "#ffffff"]

\* { ...undefined, pageNumber: n }: the element reorderPages makes of a missing page.
UndefinedPage ==
    [id |-> NoId, pageNumber |-> 0, layoutTemplate |-> "undefined",
     assets |-> <<>>, backgroundColor |-> "undefined"]

IsMedia(a) == a.type = "image" \/ a.type = "video"

IsLocked == album # Null /\ album.config.isLocked

PageIds(a) == {a.pages[i].id : i \in 1..Len(a.pages)} \ {NoId}

\* pages.findIndex(p => p.id === pageId), 0-based, -1 when absent.
FindIndexById(pages, pageId) ==
    IF \E i \in 1..Len(pages) : pages[i].id = pageId
    THEN (CHOOSE i \in 1..Len(pages) :
            /\ pages[i].id = pageId
            /\ \A j \in 1..(i - 1) : pages[j].id # pageId) - 1
    ELSE -1

\* pages.findIndex(p => p.layoutTemplate === template)
FindIndexByTemplate(pages, template) ==
    IF \E i \in 1..Len(pages) : pages[i].layoutTemplate = template
    THEN (CHOOSE i \in 1..Len(pages) :
            /\ pages[i].layoutTemplate = template
            /\ \A j \in 1..(i - 1) : pages[j].layoutTemplate # template) - 1
    ELSE -1

\* Renumber as it would be if the pages kept the numbers they had.
Renumber_Keep(pages) == pages

\* pages.map((p, i) => ({ ...p, pageNumber: i + 1 }))
Renumber(pages) ==
    [i \in 1..Len(pages) |-> [pages[i] EXCEPT !.pageNumber = i]]

\* pages.map(p => p.id === pageId ? f(p) : p)
MapPage(pages, pageId, F(_)) ==
    [i \in 1..Len(pages) |-> IF pages[i].id = pageId THEN F(pages[i]) ELSE pages[i]]

(***************************************************************************)
(* setAlbum, undo, redo (lines 217-250).                                   *)
(***************************************************************************)
Op(name) == [name |-> name, locked |-> IsLocked, redoLen |-> Len(redoStack)]

\* A freshly built aggregate: { ...album, <changes>, updatedAt: new Date() }.
Stamp(a) == [a EXCEPT !.updatedAt = clock + 1]

\* PushHistory as it would be without the slice: nothing is ever evicted.
PushHistory_NoCap(h, prev) == Append(h, prev)

\* setHistory(h => [...h.slice(-19), prev])
PushHistory(h, prev) == Append(SliceLast(h, HistKeep), prev)

\* SetAlbum as it would be without setRedoStack([]) of line 222.
SetAlbum_KeepRedo(resolved) ==
    /\ album' = resolved
    /\ clock' = clock + 1
    /\ UNCHANGED redoStack
    /\ IF album # Null
       THEN /\ history' = Append(SliceLast(history, HistKeep), album)
            /\ made' = Append(SubSeq(made, 1, pos), resolved)
            /\ pos' = pos + 1
            /\ branches' = IF redoStack # <<>> THEN branches + 1 ELSE branches
       ELSE /\ UNCHANGED <<history, branches>>
            /\ made' = <<resolved>>
            /\ pos' = 1

\* setAlbum(resolved) for a resolved that is a new object (prev !== resolved):
\* the previous aggregate, when there is one, goes onto the undo stack and the
\* redo stack is cleared.  made/pos/branches only record what happened.
SetAlbum(resolved) ==
    /\ album' = resolved
    /\ clock' = clock + 1
    /\ IF album # Null
       THEN /\ history' = PushHistory(history, album)
            /\ redoStack' = <<>>
            /\ made' = Append(SubSeq(made, 1, pos), resolved)
            /\ pos' = pos + 1
            /\ branches' = IF redoStack # <<>> THEN branches + 1 ELSE branches
       ELSE /\ UNCHANGED <<history, redoStack, branches>>
            /\ made' = <<resolved>>
            /\ pos' = 1

\* An operation that returned at a guard, or whose updater returned prev.  lastOp
\* records it when the lock guard is what refused it.
Noop(name) ==
    /\ lastOp' = IF IsLocked THEN Op(name) ELSE lastOp
    /\ UNCHANGED <<album, history, redoStack, currentPageIndex, selectedAssetId,
                   nextId, clock, upload, made, pos, branches>>

\* An operation that went through setAlbum with a new aggregate.
Commit(name, newAlbum) ==
    /\ lastOp' = Op(name)
    /\ SetAlbum(Stamp(newAlbum))

\* UndoResult as it would be if undo took the oldest snapshot, not the newest.
UndoResult_Oldest(a, h, r) ==
    IF h = <<>> THEN <<a, h, r>>
    ELSE <<Head(h), Tail(h), IF a # Null THEN Append(r, a) ELSE r>>

\* The store triple <<album, history, redoStack>> after undo().
UndoResult(a, h, r) ==
    IF h = <<>> THEN <<a, h, r>>
    ELSE <<Last(h), Front(h), IF a # Null THEN Append(r, a) ELSE r>>

\* The store triple after redo().
RedoResult(a, h, r) ==
    IF r = <<>> THEN <<a, h, r>>
    ELSE <<Last(r), IF a # Null THEN Append(h, a) ELSE h, Front(r)>>

undo ==
    LET res == UndoResult(album, history, redoStack)
    IN  /\ lastOp' = Op("undo")
        /\ album' = res[1]
        /\ history' = res[2]
        /\ redoStack' = res[3]
        /\ pos' = IF pos > 1 THEN pos - 1 ELSE pos
        /\ UNCHANGED <<currentPageIndex, selectedAssetId, nextId, clock, upload,
                       made, branches>>

redo ==
    LET res == RedoResult(album, history, redoStack)
    IN  /\ lastOp' = Op("redo")
        /\ album' = res[1]
        /\ history' = res[2]
        /\ redoStack' = res[3]
        /\ pos' = IF pos < Len(made) THEN pos + 1 ELSE pos
        /\ UNCHANGED <<currentPageIndex, selectedAssetId, nextId, clock, upload,
                       made, branches>>

(***************************************************************************)
(* Page operations (lines 252-303, 559-637).                               *)
(***************************************************************************)
addPagePages_AtEnd(pages, template, id1, id2) ==
    Renumber(pages \o <<MkPage(id1, Len(pages) + 1, template, <<>>),
                        MkPage(id2, Len(pages) + 2, template, <<>>)>>)

addPagePages(pages, template, id1, id2) ==
    LET backCoverIndex == FindIndexByTemplate(pages, "cover-back")
        insertIndex == IF backCoverIndex # -1 THEN backCoverIndex ELSE Len(pages)
        newPage1 == MkPage(id1, insertIndex + 1, template, <<>>)
        newPage2 == MkPage(id2, insertIndex + 2, template, <<>>)
    IN  Renumber(SpliceInsert(pages, insertIndex, <<newPage1, newPage2>>))

addPage(template) ==
    IF album = Null \/ album.config.isLocked THEN Noop("addPage")
    ELSE LET backCoverIndex == FindIndexByTemplate(album.pages, "cover-back")
             insertIndex == IF backCoverIndex # -1 THEN backCoverIndex
                            ELSE Len(album.pages)
         IN  /\ Commit("addPage",
                       [album EXCEPT !.pages =
                           addPagePages(album.pages, template, nextId, nextId + 1)])
             /\ currentPageIndex' = insertIndex
             /\ nextId' = nextId + 2
             /\ UNCHANGED <<selectedAssetId, upload>>

removePagePages(pages, pageId) ==
    Renumber(SelectSeq(pages, LAMBDA p : p.id # pageId))

removePage(pageId) ==
    IF album = Null \/ Len(album.pages) <= 1 \/ album.config.isLocked
    THEN Noop("removePage")
    ELSE /\ Commit("removePage",
                   [album EXCEPT !.pages = removePagePages(album.pages, pageId)])
         /\ currentPageIndex' = Max(0, currentPageIndex - 1)
         /\ UNCHANGED <<selectedAssetId, nextId, upload>>

\* { ...p, ...updates }
updatePage(pageId, updates) ==
    IF album = Null \/ album.config.isLocked THEN Noop("updatePage")
    ELSE /\ Commit("updatePage",
                   [album EXCEPT !.pages =
                       MapPage(album.pages, pageId, LAMBDA p : Merge(p, updates))])
         /\ UNCHANGED <<currentPageIndex, selectedAssetId, nextId, upload>>

applyLayout(pageId, template) ==
    IF album = Null \/ album.config.isLocked THEN Noop("applyLayout")
    ELSE /\ Commit("applyLayout",
                   [album EXCEPT !.pages =
                       MapPage(album.pages, pageId,
                               LAMBDA p : [p EXCEPT !.layoutTemplate = template])])
         /\ UNCHANGED <<currentPageIndex, selectedAssetId, nextId, upload>>

\* The copy of a page: a new id for the page and for each of its assets.
duplicatePagePages(pages, pageId, firstId) ==
    LET pageIndex == FindIndexById(pages, pageId)
        src == pages[pageIndex + 1]
        newPage == [src EXCEPT
                      !.id = firstId,
                      !.pageNumber = Len(pages) + 1,
                      !.assets = [i \in 1..Len(src.assets) |->
                                    [src.assets[i] EXCEPT !.id = firstId + i]]]
    IN  Renumber(SpliceInsert(pages, pageIndex + 1, <<newPage>>))

duplicatePage(pageId) ==
    IF album = Null \/ album.config.isLocked THEN Noop("duplicatePage")
    ELSE LET pageIndex == FindIndexById(album.pages, pageId)
         IN  IF pageIndex = -1 THEN Noop("duplicatePage")
             ELSE /\ Commit("duplicatePage",
                            [album EXCEPT !.pages =
                                duplicatePagePages(album.pages, pageId, nextId)])
                  /\ currentPageIndex' = pageIndex + 1
                  /\ nextId' = nextId + 1 + Len(album.pages[pageIndex + 1].assets)
                  /\ UNCHANGED <<selectedAssetId, upload>>

\* newPages.splice(currentIndex, 1); newPages.splice(newIndex, 0, movedPage)
MoveElement(pages, fromIndex, toIndex) ==
    SpliceInsert(SpliceDelete(pages, fromIndex), toIndex,
                 IF SpliceRemoved(pages, fromIndex) = <<>>
                 THEN <<UndefinedPage>>
                 ELSE SpliceRemoved(pages, fromIndex))

movePagePages(pages, currentIndex, newIndex) ==
    Renumber(MoveElement(pages, currentIndex, newIndex))

movePage(pageId, direction) ==
    IF album = Null \/ album.config.isLocked THEN Noop("movePage")
    ELSE LET currentIndex == FindIndexById(album.pages, pageId)
             newIndex == IF direction = "left" THEN currentIndex - 1
                         ELSE currentIndex + 1
         IN  IF \/ currentIndex = -1
                \/ currentIndex = 0
                \/ currentIndex = Len(album.pages) - 1
                \/ newIndex <= 0
                \/ newIndex >= Len(album.pages) - 1
             THEN Noop("movePage")
             ELSE /\ Commit("movePage",
                            [album EXCEPT !.pages =
                                movePagePages(album.pages, currentIndex, newIndex)])
                  /\ currentPageIndex' = newIndex
                  /\ UNCHANGED <<selectedAssetId, nextId, upload>>

\* let safeToIndex = toIndex; if (<= 0) 1; if (>= length - 1) length - 2
SafeToIndex(len, toIndex) ==
    LET s1 == IF toIndex <= 0 THEN 1 ELSE toIndex
    IN  IF s1 >= len - 1 THEN len - 2 ELSE s1

reorderPagesPages(pages, fromIndex, toIndex) ==
    Renumber(MoveElement(pages, fromIndex, SafeToIndex(Len(pages), toIndex)))

reorderPages(fromIndex, toIndex) ==
    IF album = Null \/ album.config.isLocked THEN Noop("reorderPages")
    ELSE IF fromIndex = 0 \/ fromIndex = Len(album.pages) - 1
         THEN Noop("reorderPages")
         ELSE /\ Commit("reorderPages",
                        [album EXCEPT !.pages =
                            reorderPagesPages(album.pages, fromIndex, toIndex)])
              /\ UNCHANGED <<currentPageIndex, selectedAssetId, nextId, upload>>

(***************************************************************************)
(* Asset operations (lines 305-381, 507-557, 648-680).                     *)
(***************************************************************************)
\* p.assets.map(a => a.id === assetId ? f(a) : a)
MapAsset(assets, assetId, F(_)) ==
    [i \in 1..Len(assets) |->
        IF assets[i].id = assetId THEN F(assets[i]) ELSE assets[i]]

\* page?.assets.find(a => a.id === assetId) as an optional value.
FindAsset(pages, pageId, assetId) ==
    LET pi == FindIndexById(pages, pageId)
    IN  IF pi = -1 THEN None
        ELSE LET as == pages[pi + 1].assets
             IN  IF \E i \in 1..Len(as) : as[i].id = assetId
                 THEN Some(as[CHOOSE i \in 1..Len(as) :
                                /\ as[i].id = assetId
                                /\ \A j \in 1..(i - 1) : as[j].id # assetId])
                 ELSE None

addAsset(pageId, asset) ==
    IF album = Null \/ album.config.isLocked THEN Noop("addAsset")
    ELSE LET newAsset == [asset EXCEPT !.id = nextId]
         IN  /\ Commit("addAsset",
                       [album EXCEPT !.pages =
                           MapPage(album.pages, pageId,
                               LAMBDA p : [p EXCEPT !.assets = Append(@, newAsset)])])
             /\ selectedAssetId' = Some(newAsset.id)
             /\ nextId' = nextId + 1
             /\ UNCHANGED <<currentPageIndex, upload>>

updateAssetPages(pages, pageId, assetId, updates) ==
    MapPage(pages, pageId,
        LAMBDA p : [p EXCEPT !.assets =
                        MapAsset(@, assetId, LAMBDA a : Merge(a, updates))])

updateAsset(pageId, assetId, updates) ==
    IF album = Null \/ album.config.isLocked THEN Noop("updateAsset")
    ELSE /\ Commit("updateAsset",
                   [album EXCEPT !.pages =
                       updateAssetPages(album.pages, pageId, assetId, updates)])
         /\ UNCHANGED <<currentPageIndex, selectedAssetId, nextId, upload>>

removeAsset(pageId, assetId) ==
    IF album = Null \/ album.config.isLocked THEN Noop("removeAsset")
    ELSE /\ Commit("removeAsset",
                   [album EXCEPT !.pages =
                       MapPage(album.pages, pageId,
                           LAMBDA p : [p EXCEPT !.assets =
                               SelectSeq(@, LAMBDA a : a.id # assetId)])])
         /\ selectedAssetId' = IF selectedAssetId = Some(assetId) THEN None
                               ELSE selectedAssetId
         /\ UNCHANGED <<currentPageIndex, nextId, upload>>

duplicateAsset(pageId, assetId) ==
    IF album = Null \/ album.config.isLocked THEN Noop("duplicateAsset")
    ELSE LET found == FindAsset(album.pages, pageId, assetId)
         IN  IF found = None THEN Noop("duplicateAsset")
             ELSE LET sourceAsset == found[1]
                      newAsset == [sourceAsset EXCEPT
                                      !.id = nextId,
                                      !.x = sourceAsset.x + DupOffset,
                                      !.y = sourceAsset.y + DupOffset,
                                      !.zIndex = sourceAsset.zIndex + 1]
                  IN  /\ Commit("duplicateAsset",
                                [album EXCEPT !.pages =
                                    MapPage(album.pages, pageId,
                                        LAMBDA p : [p EXCEPT !.assets =
                                                        Append(@, newAsset)])])
                      /\ selectedAssetId' = Some(newAsset.id)
                      /\ nextId' = nextId + 1
                      /\ UNCHANGED <<currentPageIndex, upload>>

\* Math.max(...zs, 0) and Math.min(...zs, 0)
MaxZ(assets) ==
    LET zs == {assets[i].zIndex : i \in 1..Len(assets)} \cup {0}
    IN  CHOOSE m \in zs : \A z \in zs : z <= m
MinZ(assets) ==
    LET zs == {assets[i].zIndex : i \in 1..Len(assets)} \cup {0}
    IN  CHOOSE m \in zs : \A z \in zs : z >= m

updateAssetZIndex(pageId, assetId, direction) ==
    IF album = Null \/ album.config.isLocked THEN Noop("updateAssetZIndex")
    ELSE IF FindAsset(album.pages, pageId, assetId) = None
         THEN Noop("updateAssetZIndex")
         ELSE LET page == album.pages[FindIndexById(album.pages, pageId) + 1]
                  newZIndex == IF direction = "front" THEN MaxZ(page.assets) + 1
                               ELSE MinZ(page.assets) - 1
              IN  /\ Commit("updateAssetZIndex",
                            [album EXCEPT !.pages =
                                updateAssetPages(album.pages, pageId, assetId,
                                                 [zIndex |-> newZIndex])])
                  /\ UNCHANGED <<currentPageIndex, selectedAssetId, nextId, upload>>

addMediaByUrl(url, type) ==
    IF album = Null \/ album.config.isLocked THEN Noop("addMediaByUrl")
    ELSE LET newAsset == MkAsset(nextId, type, url, 0, 0, 400, 300, 1)
         IN  /\ Commit("addMediaByUrl",
                       [album EXCEPT !.unplacedMedia = Append(@, newAsset)])
             /\ nextId' = nextId + 1
             /\ UNCHANGED <<currentPageIndex, selectedAssetId, upload>>

moveFromLibrary(assetId, pageId) ==
    IF album = Null \/ album.config.isLocked THEN Noop("moveFromLibrary")
    ELSE IF \A i \in 1..Len(album.unplacedMedia) : album.unplacedMedia[i].id # assetId
         THEN Noop("moveFromLibrary")
         ELSE LET um == album.unplacedMedia
                  asset == um[CHOOSE i \in 1..Len(um) :
                                /\ um[i].id = assetId
                                /\ \A j \in 1..(i - 1) : um[j].id # assetId]
                  placed == [asset EXCEPT !.x = LibraryDrop, !.y = LibraryDrop]
              IN  /\ Commit("moveFromLibrary",
                            [album EXCEPT
                                !.unplacedMedia = SelectSeq(@, LAMBDA a : a.id # assetId),
                                !.pages = MapPage(@, pageId,
                                    LAMBDA p : [p EXCEPT !.assets = Append(@, placed)])])
                  /\ UNCHANGED <<currentPageIndex, selectedAssetId, nextId, upload>>

\* updatePageAssets as it would be without the isLocked test of line 649.
updatePageAssets_Unguarded(pageId, newAssets) ==
    IF album = Null THEN Noop("updatePageAssets")
    ELSE /\ Commit("updatePageAssets",
                   [album EXCEPT !.pages =
                       MapPage(@, pageId, LAMBDA p : [p EXCEPT !.assets = newAssets])])
         /\ UNCHANGED <<currentPageIndex, selectedAssetId, nextId, upload>>

updatePageAssets(pageId, newAssets) ==
    IF album = Null \/ album.config.isLocked THEN Noop("updatePageAssets")
    ELSE /\ Commit("updatePageAssets",
                   [album EXCEPT !.pages =
                       MapPage(@, pageId, LAMBDA p : [p EXCEPT !.assets = newAssets])])
         /\ UNCHANGED <<currentPageIndex, selectedAssetId, nextId, upload>>

\* prev.pages.map(p => { if (p.id === fromPageId) <filter>; if (p.id === toPageId)
\* <append>; return p })
moveAssetToPagePages(pages, asset, fromPageId, toPageId, newX, newY) ==
    [i \in 1..Len(pages) |->
        IF pages[i].id = fromPageId
        THEN [pages[i] EXCEPT !.assets = SelectSeq(@, LAMBDA a : a.id # asset.id)]
        ELSE IF pages[i].id = toPageId
             THEN [pages[i] EXCEPT !.assets =
                      Append(@, [asset EXCEPT !.x = newX, !.y = newY])]
             ELSE pages[i]]

moveAssetToPage(assetId, fromPageId, toPageId, newX, newY) ==
    IF album = Null \/ album.config.isLocked THEN Noop("moveAssetToPage")
    ELSE LET found == FindAsset(album.pages, fromPageId, assetId)
         IN  IF found = None THEN Noop("moveAssetToPage")
             ELSE /\ Commit("moveAssetToPage",
                            [album EXCEPT !.pages =
                                moveAssetToPagePages(@, found[1], fromPageId,
                                                     toPageId, newX, newY)])
                  /\ UNCHANGED <<currentPageIndex, selectedAssetId, nextId, upload>>

(***************************************************************************)
(* Config operations (lines 639-646, 682-724, 1042-1056).                  *)
(***************************************************************************)
updateConfig(updates) ==
    IF album = Null \/ album.config.isLocked THEN Noop("updateConfig")
    ELSE /\ Commit("updateConfig",
                   [album EXCEPT !.config = Merge(@, updates)])
         /\ UNCHANGED <<currentPageIndex, selectedAssetId, nextId, upload>>

\* updateConfig({ useSpreadView: !album.config.useSpreadView })
toggleSpreadView ==
    IF album = Null \/ album.config.isLocked THEN Noop("toggleSpreadView")
    ELSE /\ Commit("toggleSpreadView",
                   [album EXCEPT !.config =
                       Merge(@, [useSpreadView |-> ~album.config.useSpreadView])])
         /\ UNCHANGED <<currentPageIndex, selectedAssetId, nextId, upload>>

\* The pages after syncStyles(sourceAsset); of the style keys copied from the
\* source, opacity is the one the model carries.
syncStylesPages(pages, source) ==
    [i \in 1..Len(pages) |->
        [pages[i] EXCEPT !.assets =
            [j \in 1..Len(@) |->
                IF source # None /\ @[j].type = source[1].type
                THEN [@[j] EXCEPT !.opacity = source[1].opacity]
                ELSE @[j]]]]

\* p.assets.map on a page built from `undefined` throws inside the updater:
\* no state is committed.
syncStyles(source) ==
    IF album = Null \/ album.config.isLocked THEN Noop("syncStyles")
    ELSE IF \E i \in 1..Len(album.pages) : album.pages[i].id = NoId
         THEN Noop("syncStyles")
         ELSE /\ Commit("syncStyles",
                        [album EXCEPT !.pages = syncStylesPages(@, source)])
              /\ UNCHANGED <<currentPageIndex, selectedAssetId, nextId, upload>>

\* The optimistic update of toggleLock; the backend write that follows does not
\* touch the store.
toggleLock ==
    IF album = Null THEN Noop("toggleLock")
    ELSE /\ Commit("toggleLock",
                   [album EXCEPT !.config.isLocked = ~album.config.isLocked])
         /\ UNCHANGED <<currentPageIndex, selectedAssetId, nextId, upload>>

(***************************************************************************)
(* uploadMedia (lines 383-505): the guard at the call, one step per file   *)
(* of the batch, and the single setAlbum at the end of the batch.          *)
(***************************************************************************)
\* One batch is in flight at a time.
uploadMediaStart(nFiles) ==
    /\ upload = None
    /\ IF album = Null \/ album.config.isLocked
       THEN Noop("uploadMedia") /\ UNCHANGED isSaving
       ELSE /\ lastOp' = Op("uploadMediaStart")
            /\ upload' = Some([files |-> nFiles, uploadedAssets |-> <<>>])
            /\ isSaving' = TRUE
            /\ UNCHANGED <<album, history, redoStack, currentPageIndex,
                           selectedAssetId, nextId, clock, made, pos, branches>>

\* uploadMediaFile as it would be if a new asset went to the front of the list.
uploadMediaFile_Unshift(ok) ==
    /\ upload # None
    /\ upload[1].files > 0
    /\ lastOp' = Op("uploadMediaFile")
    /\ upload' = Some([files |-> upload[1].files - 1,
                       uploadedAssets |->
                           IF ok THEN <<MkAsset(nextId, "image", "uploaded", 0, 0,
                                                600, 450, 1)>>
                                        \o upload[1].uploadedAssets
                           ELSE upload[1].uploadedAssets])
    /\ nextId' = IF ok THEN nextId + 1 ELSE nextId
    /\ UNCHANGED <<album, history, redoStack, currentPageIndex, selectedAssetId,
                   clock, made, pos, branches, isSaving>>

\* storageService.uploadFile resolved for the next file: with a url (an asset is
\* collected) or with an error (the file is skipped).
uploadMediaFile(ok) ==
    /\ upload # None
    /\ upload[1].files > 0
    /\ lastOp' = Op("uploadMediaFile")
    /\ upload' = Some([files |-> upload[1].files - 1,
                       uploadedAssets |->
                           IF ok THEN Append(upload[1].uploadedAssets,
                                        MkAsset(nextId, "image", "uploaded", 0, 0,
                                                600, 450, 1))
                           ELSE upload[1].uploadedAssets])
    /\ nextId' = IF ok THEN nextId + 1 ELSE nextId
    /\ UNCHANGED <<album, history, redoStack, currentPageIndex, selectedAssetId,
                   clock, made, pos, branches, isSaving>>

\* setAlbum(prev => prev ? { ...prev, unplacedMedia: [...prev.unplacedMedia,
\* ...uploadedAssets], updatedAt } : null)
uploadMediaFinish ==
    /\ upload # None
    /\ upload[1].files = 0
    /\ album # Null
    /\ Commit("uploadMediaFinish",
              [album EXCEPT !.unplacedMedia = @ \o upload[1].uploadedAssets])
    /\ upload' = None
    /\ isSaving' = FALSE
    /\ UNCHANGED <<currentPageIndex, selectedAssetId, nextId>>

(***************************************************************************)
(* fetchAlbum (lines 754-868), the successful path.  The backend holds two *)
(* albums: "A" without page rows and "B" with three page rows.             *)
(***************************************************************************)
StoredAsset(id, type, z, x, y) ==
    [id |-> id, asset_type |-> type, url |-> "stored", z_index |-> z,
     config |-> [x |-> x, y |-> y, width |-> 40, height |-> 30, rotation |-> 0,
                 scale |-> None, opacity |-> None, crop |-> None,
                 isPlaceholder |-> FALSE, fitMode |-> "undefined",
                 lockAspectRatio |-> "undefined"]]

StoredPageRows(albumId) ==
    IF albumId = "B"
    THEN << [id |-> 101, page_number |-> 1, template_id |-> "cover-front",
             background_color |-> "#ffffff", assets |-> <<>>],
            [id |-> 102, page_number |-> 2, template_id |-> "freeform",
             background_color |-> "#ffffff",
             assets |-> << StoredAsset(111, "image", 1, 10, 10),
                           StoredAsset(112, "text", 2, 20, 20) >>],
            [id |-> 103, page_number |-> 3, template_id |-> "cover-back",
             background_color |-> "#ffffff", assets |-> <<>>] >>
    ELSE <<>>

\* The tables as they are before the first save: the rows of StoredPageRows.
\* Deleting a page row deletes no asset row: the store does not cascade.
DbOf(albumIds) ==
    [albums |-> [al \in albumIds |->
                    [config |-> [useSpreadView |-> TRUE, isLocked |-> FALSE,
                                 unplacedMedia |-> <<>>]]],
     pages |->
        UNION {{[id |-> StoredPageRows(al)[i].id, album_id |-> al,
                 page_number |-> StoredPageRows(al)[i].page_number,
                 template_id |-> StoredPageRows(al)[i].template_id,
                 background_color |-> StoredPageRows(al)[i].background_color] :
                  i \in 1..Len(StoredPageRows(al))} : al \in albumIds},
     assets |->
        UNION {UNION {{[id |-> StoredPageRows(al)[i].assets[j].id,
                        page_id |-> StoredPageRows(al)[i].id,
                        asset_type |-> StoredPageRows(al)[i].assets[j].asset_type,
                        url |-> StoredPageRows(al)[i].assets[j].url,
                        z_index |-> StoredPageRows(al)[i].assets[j].z_index,
                        config |-> StoredPageRows(al)[i].assets[j].config] :
                          j \in 1..Len(StoredPageRows(al)[i].assets)} :
                      i \in 1..Len(StoredPageRows(al))} : al \in albumIds}]

\* The rows of a set of [key, row] pairs in ascending order of key (the keys
\* are pairwise different).
RECURSIVE SortedByKey(_)
SortedByKey(pairs) ==
    IF pairs = {} THEN <<>>
    ELSE LET first == CHOOSE r \in pairs : \A q \in pairs : r.key <= q.key
         IN  <<first.row>> \o SortedByKey(pairs \ {first})

\* .from('pages').select(`*, assets(*)`).eq('album_id', albumId)
\* .order('page_number'): the page rows by page_number (rows with the same
\* number by id), each with its asset rows (by id).
DbPageRows(albumId) ==
    LET rows == SortedByKey({[key |-> r.page_number * 100000 + r.id, row |-> r] :
                                r \in {q \in db.pages : q.album_id = albumId}})
    IN  [i \in 1..Len(rows) |->
            [id |-> rows[i].id, page_number |-> rows[i].page_number,
             template_id |-> rows[i].template_id,
             background_color |-> rows[i].background_color,
             assets |->
                LET as == SortedByKey({[key |-> a.id, row |-> a] :
                                a \in {q \in db.assets : q.page_id = rows[i].id}})
                IN  [j \in 1..Len(as) |->
                        [id |-> as[j].id, asset_type |-> as[j].asset_type,
                         url |-> as[j].url, z_index |-> as[j].z_index,
                         config |-> as[j].config]]]]

\* x || d : d when x is 0 (or absent)
OrDefault(x, d) == IF x = 0 THEN d ELSE x

\* FetchedPages as it would be if the pages kept their stored numbers.
FetchedPages_StoredNumbers(rows) ==
    [i \in 1..Len(rows) |->
        [id |-> rows[i].id, pageNumber |-> rows[i].page_number,
         layoutTemplate |-> rows[i].template_id,
         backgroundColor |-> rows[i].background_color,
         assets |-> <<>>]]

\* sortedPages.map((p, i) => ({ id, pageNumber: i + 1, ... assets: ... }))
FetchedPages(rows) ==
    [i \in 1..Len(rows) |->
        [id |-> rows[i].id, pageNumber |-> i,
         layoutTemplate |-> rows[i].template_id,
         backgroundColor |-> rows[i].background_color,
         assets |-> [j \in 1..Len(rows[i].assets) |->
            LET a == rows[i].assets[j]
            IN  [MkAsset(a.id, a.asset_type, a.url, a.config.x, a.config.y,
                         OrDefault(a.config.width, 200),
                         OrDefault(a.config.height, 150), a.z_index)
                 EXCEPT !.rotation = a.config.rotation,
                        !.scale = IF a.config.scale \in {None, Some(0)} THEN Some(1)
                                  ELSE a.config.scale]]]]

\* The four pages built when the album has no page rows.
DefaultPages(firstId) ==
    << MkPage(firstId, 1, "cover-front", <<>>),
       MkPage(firstId + 1, 2, "freeform", <<>>),
       MkPage(firstId + 2, 3, "freeform", <<>>),
       MkPage(firstId + 3, 4, "cover-back", <<>>) >>

FetchedAlbum(albumId, firstId) ==
    LET rows == DbPageRows(albumId)
    IN  [id |-> albumId,
         pages |-> IF Len(rows) = 0 THEN DefaultPages(firstId)
                   ELSE FetchedPages(rows),
         unplacedMedia |-> db.albums[albumId].config.unplacedMedia,
         config |-> db.albums[albumId].config,
         updatedAt |-> 0]

fetchAlbum(albumId) ==
    /\ lastOp' = Op("fetchAlbum")
    /\ SetAlbum(FetchedAlbum(albumId, nextId))
    /\ nextId' = IF Len(DbPageRows(albumId)) = 0 THEN nextId + 4 ELSE nextId
    /\ UNCHANGED <<currentPageIndex, selectedAssetId, upload>>

(***************************************************************************)
(* getSpread (lines 726-752): the pages shown together with page pageIndex.*)
(***************************************************************************)
getSpread(a, pageIndex) ==
    IF a = Null THEN <<>>
    ELSE IF pageIndex < 0 \/ pageIndex >= Len(a.pages) THEN <<>>
    ELSE LET page == a.pages[pageIndex + 1]
         IN  IF ~a.config.useSpreadView THEN <<page>>
             ELSE IF page.layoutTemplate = "cover-front" THEN <<page>>
             ELSE IF page.layoutTemplate = "cover-back" THEN <<page>>
             ELSE IF pageIndex % 2 = 1
                  THEN IF /\ pageIndex + 1 < Len(a.pages)
                          /\ a.pages[pageIndex + 2].layoutTemplate # "cover-back"
                       THEN <<page, a.pages[pageIndex + 2]>>
                       ELSE <<page>>
                  ELSE IF /\ pageIndex - 1 >= 0
                          /\ a.pages[pageIndex].layoutTemplate # "cover-front"
                       THEN <<a.pages[pageIndex], page>>
                       ELSE <<page>>

(***************************************************************************)
(* The store as a state machine.                                           *)
(***************************************************************************)
AllPageAssets(a) ==
    UNION {Range(a.pages[i].assets) : i \in 1..Len(a.pages)}

\* Arguments the UI can pass: the ids present, and one id that names nothing.
PageArgs == IF album = Null THEN {-1} ELSE PageIds(album) \cup {-1}
AssetArgs ==
    IF album = Null THEN {-1}
    ELSE {x.id : x \in AllPageAssets(album)} \cup {-1}
LibraryArgs ==
    IF album = Null THEN {-1}
    ELSE {x.id : x \in Range(album.unplacedMedia)} \cup {-1}
IndexArgs == IF album = Null THEN {0} ELSE -1..Len(album.pages)
SourceArgs ==
    IF album = Null THEN {None}
    ELSE {None} \cup {Some(x) : x \in AllPageAssets(album)}
AssetArgsOn(p) ==
    IF album = Null \/ FindIndexById(album.pages, p) = -1 THEN {-1}
    ELSE {x.id : x \in Range(album.pages[FindIndexById(album.pages, p) + 1].assets)}
            \cup {-1}
NewAssets == {MkAsset(0, "image", "u", 10, 10, 20, 20, 5)}
AssetUpdates == {[x |-> 60, y |-> 70], [opacity |-> Some(50)]}
PageUpdates == {[layoutTemplate |-> "cover-front"], [backgroundColor |-> "#000000"]}
ConfigUpdates == {[useSpreadView |-> FALSE], [isLocked |-> TRUE]}

\* No saveAlbum call was made yet.
NoSave ==
    [pc |-> "idle", album |-> Null, calls |-> <<>>, result |-> None,
     found |-> {}, row |-> 1, stored |-> {}, n |-> 0]

StoreInit ==
    /\ album = Null
    /\ history = <<>>
    /\ redoStack = <<>>
    /\ currentPageIndex = 0
    /\ selectedAssetId = None
    /\ nextId = 1
    /\ clock = 0
    /\ upload = None
    /\ lastOp = [name |-> "init", locked |-> FALSE, redoLen |-> 0]
    /\ made = <<>>
    /\ pos = 0
    /\ branches = 0
    /\ db = DbOf({"A", "B"})
    /\ saveCall = NoSave
    /\ isSaving = FALSE

Init ==
    /\ StoreInit
    /\ layoutIn = None
    /\ layoutOut = <<>>
    /\ callIn = None
    /\ callOut = None

\* One UI event of Spec: the run builds at most MaxEdits aggregates, and the
\* layout engine's variables are not the store's.
Ev(A) == clock < MaxEdits /\ A /\ UNCHANGED otherVars

\* The operations a UI event runs to completion, and the album load.
Next ==
    \/ Ev(addPage("freeform"))
    \/ Ev(\E p \in PageArgs : removePage(p))
    \/ Ev(\E p \in PageArgs, u \in PageUpdates : updatePage(p, u))
    \/ Ev(\E p \in PageArgs, t \in {"freeform", "cover-back"} : applyLayout(p, t))
    \/ Ev(\E p \in PageArgs : duplicatePage(p))
    \/ Ev(\E p \in PageArgs, d \in {"left", "right"} : movePage(p, d))
    \/ Ev(\E f \in IndexArgs, t \in IndexArgs : reorderPages(f, t))
    \/ Ev(\E p \in PageArgs, a \in NewAssets : addAsset(p, a))
    \/ Ev(\E p \in PageArgs : \E a \in AssetArgsOn(p), u \in AssetUpdates :
            updateAsset(p, a, u))
    \/ Ev(\E p \in PageArgs, a \in AssetArgs : removeAsset(p, a))
    \/ Ev(\E p \in PageArgs : \E a \in AssetArgsOn(p) : duplicateAsset(p, a))
    \/ Ev(\E p \in PageArgs : \E a \in AssetArgsOn(p), d \in {"front", "back"} :
            updateAssetZIndex(p, a, d))
    \/ Ev(addMediaByUrl("url", "image"))
    \/ Ev(\E a \in LibraryArgs, p \in PageArgs : moveFromLibrary(a, p))
    \/ Ev(\E p \in PageArgs : updatePageAssets(p, <<>>))
    \/ Ev(\E f \in PageArgs : \E a \in AssetArgsOn(f), t \in PageArgs :
            moveAssetToPage(a, f, t, 5, 5))
    \/ Ev(\E u \in ConfigUpdates : updateConfig(u))
    \/ Ev(toggleSpreadView)
    \/ Ev(\E src \in SourceArgs : syncStyles(src))
    \/ Ev(toggleLock)
    \/ Ev(\E id \in {"A", "B"} : fetchAlbum(id))
    \/ Ev(undo)
    \/ Ev(redo)

Spec == Init /\ [][Next]_vars

\* One step of an uploadMedia batch, which sets isSaving itself.
EvUpload(A) ==
    clock < MaxEdits /\ A /\ UNCHANGED <<layoutVars, callVars, db, saveCall>>

\* The same, with an uploadMedia batch running between the events.
NextAll ==
    \/ Next
    \/ EvUpload(uploadMediaStart(MaxFiles))
    \/ EvUpload(\E ok \in BOOLEAN : uploadMediaFile(ok))
    \/ EvUpload(uploadMediaFinish)

SpecAll == Init /\ [][NextAll]_vars

(***************************************************************************)
(* Layout template engine (src/src/lib/layoutUtils.ts).  A slot is a       *)
(* LayoutConfig: x, left, y, top and rotation are optional keys.           *)
(***************************************************************************)
\* a ?? b ?? 0 over optional values
Coalesce(a, b) == IF a # None THEN a[1] ELSE IF b # None THEN b[1] ELSE 0

createPlaceholder(id, zIndex) ==
    [id |-> id, type |-> "image", url |-> "", x |-> 0, y |-> 0,
     width |-> 100, height |-> 100, rotation |-> 0, zIndex |-> zIndex,
     scale |-> Some(1), opacity |-> Some(100), fitMode |-> "cover", crop |-> None,
     isPlaceholder |-> TRUE, lockAspectRatio |-> "false"]

\* updateAssetPosition as it would be without `asset.crop = undefined` of line 48.
updateAssetPosition_KeepCrop(asset, slot) ==
    [asset EXCEPT
        !.x = Coalesce(slot.x, slot.left),
        !.y = Coalesce(slot.y, slot.top),
        !.width = slot.width,
        !.height = slot.height,
        !.rotation = Coalesce(slot.rotation, None),
        !.zIndex = slot.z_index,
        !.fitMode = "cover",
        !.lockAspectRatio = "false",
        !.scale = Some(1)]

updateAssetPosition(asset, slot) ==
    [asset EXCEPT
        !.x = Coalesce(slot.x, slot.left),
        !.y = Coalesce(slot.y, slot.top),
        !.width = slot.width,
        !.height = slot.height,
        !.rotation = Coalesce(slot.rotation, None),
        !.zIndex = slot.z_index,
        !.fitMode = "cover",
        !.crop = None,
        !.lockAspectRatio = "false",
        !.scale = Some(1)]

\* ShiftSlot as it would be if right-page slots kept their spread coordinates.
ShiftSlot_Unshifted(slot) == slot

\* The right-page copy of a slot: x and left, where present, reduced by 100.
ShiftSlot(slot) ==
    [slot EXCEPT
        !.x = IF @ # None THEN Some(@[1] - SpreadSplit) ELSE @,
        !.left = IF @ # None THEN Some(@[1] - SpreadSplit) ELSE @]

SlotIsLeft(slot) == Coalesce(slot.x, slot.left) < SpreadSplit

leftSlotsOf(config) == SelectSeq(config, SlotIsLeft)
rightSlotsOf(config) ==
    LET rs == SelectSeq(config, LAMBDA sl : ~SlotIsLeft(sl))
    IN  [i \in 1..Len(rs) |-> ShiftSlot(rs[i])]

MediaOf(assets) == SelectSeq(assets, IsMedia)
OtherOf(assets) == SelectSeq(assets, LAMBDA a : ~IsMedia(a))

\* slots.forEach over a shared mediaIndex (0-based): the next unused media asset
\* when one is left, a new placeholder otherwise.  The result carries the assets
\* pushed, the mediaIndex and the id source after the loop.
RECURSIVE FillSlots(_, _, _, _, _)
FillSlots(slots, k, allMedia, mediaIndex, idSource) ==
    IF k > Len(slots)
    THEN [assets |-> <<>>, mediaIndex |-> mediaIndex, idSource |-> idSource]
    ELSE LET useMedia == mediaIndex < Len(allMedia)
             asset == IF useMedia THEN allMedia[mediaIndex + 1]
                      ELSE createPlaceholder(idSource, slots[k].z_index)
             rest == FillSlots(slots, k + 1, allMedia,
                               IF useMedia THEN mediaIndex + 1 ELSE mediaIndex,
                               IF useMedia THEN idSource ELSE idSource + 1)
         IN  [rest EXCEPT !.assets = <<updateAssetPosition(asset, slots[k])>> \o @]

\* slots.forEach((slot, index) => ...) of the single-page branch: slot index
\* takes currentMedia[index].
RECURSIVE FillByIndex(_, _, _, _)
FillByIndex(slots, k, currentMedia, idSource) ==
    IF k > Len(slots) THEN [assets |-> <<>>, idSource |-> idSource]
    ELSE LET useMedia == k - 1 < Len(currentMedia)
             asset == IF useMedia THEN currentMedia[k]
                      ELSE createPlaceholder(idSource, slots[k].z_index)
             rest == FillByIndex(slots, k + 1, currentMedia,
                                 IF useMedia THEN idSource ELSE idSource + 1)
         IN  [rest EXCEPT !.assets = <<updateAssetPosition(asset, slots[k])>> \o @]

LayoutUpdate(pageId, assets, name) ==
    [pageId |-> pageId, assets |-> assets, layoutTemplate |-> name]

spreadUpdates(layout, leftPage, rightPage, idSource) ==
    LET leftMedia == MediaOf(leftPage.assets)
        rightMedia == IF rightPage # None THEN MediaOf(rightPage[1].assets) ELSE <<>>
        allMedia == leftMedia \o rightMedia
        leftOther == OtherOf(leftPage.assets)
        rightOther == IF rightPage # None THEN OtherOf(rightPage[1].assets) ELSE <<>>
        l == FillSlots(leftSlotsOf(layout.config), 1, allMedia, 0, idSource)
        r == FillSlots(rightSlotsOf(layout.config), 1, allMedia, l.mediaIndex,
                       l.idSource)
    IN  [updates |->
            <<LayoutUpdate(leftPage.id, leftOther \o l.assets, layout.name)>> \o
            (IF rightPage # None
             THEN <<LayoutUpdate(rightPage[1].id, rightOther \o r.assets,
                                 layout.name)>>
             ELSE <<>>),
         idSource |-> IF rightPage # None THEN r.idSource ELSE l.idSource]

TargetPage(leftPage, rightPage, targetPageId) ==
    IF targetPageId = None THEN leftPage
    ELSE IF leftPage.id = targetPageId[1] THEN leftPage
    ELSE IF rightPage # None /\ rightPage[1].id = targetPageId[1] THEN rightPage[1]
    ELSE leftPage

\* singleUpdates as it would be if newAssets started empty, not from otherAssets.
singleUpdates_DropOther(layout, leftPage, rightPage, targetPageId, idSource) ==
    LET targetPage == TargetPage(leftPage, rightPage, targetPageId)
        f == FillByIndex(layout.config, 1, MediaOf(targetPage.assets), idSource)
    IN  [updates |-> <<LayoutUpdate(targetPage.id, f.assets, layout.name)>>,
         idSource |-> f.idSource]

singleUpdates(layout, leftPage, rightPage, targetPageId, idSource) ==
    LET targetPage == TargetPage(leftPage, rightPage, targetPageId)
        currentMedia == MediaOf(targetPage.assets)
        otherAssets == OtherOf(targetPage.assets)
        f == FillByIndex(layout.config, 1, currentMedia, idSource)
    IN  [updates |-> <<LayoutUpdate(targetPage.id, otherAssets \o f.assets,
                                    layout.name)>>,
         idSource |-> f.idSource]

\* The LayoutUpdate[] and the id source after the call.
calculateLayoutApplication(layout, leftPage, rightPage, targetPageId, idSource) ==
    IF leftPage = None THEN [updates |-> <<>>, idSource |-> idSource]
    ELSE IF layout.is_spread
         THEN spreadUpdates(layout, leftPage[1], rightPage, idSource)
         ELSE singleUpdates(layout, leftPage[1], rightPage, targetPageId, idSource)

(***************************************************************************)
(* The layout engine applied to bounded inputs.                            *)
(***************************************************************************)
SeqsUpTo(S, n) == UNION {[1..k -> S] : k \in 0..n}

Slot(x, left, z) ==
    [x |-> x, left |-> left, y |-> Some(5), top |-> None, width |-> 40,
     height |-> 30, z_index |-> z, rotation |-> None]

\* x given as x or as left, on either side of the spread, or not given at all.
SlotShapes == { <<Some(10), None>>, <<None, Some(60)>>, <<Some(120), None>>,
                <<None, Some(150)>>, <<None, None>> }

\* The z_index of a slot is its position in the template.
LayoutConfigs ==
    { [i \in 1..Len(sh) |-> Slot(sh[i][1], sh[i][2], i)] :
        sh \in SeqsUpTo(SlotShapes, MaxSlots) }

AssetKinds == {"image", "video", "text"}
RightKinds == {"image", "text"}

\* A page whose i-th asset has the i-th kind; ids are unique over the spread.
InputPage(id, kinds) ==
    MkPage(id, 1, "freeform",
           [i \in 1..Len(kinds) |->
              [MkAsset(10 * id + i, kinds[i], "u", 50 + i, 50 + i, 20, 20, 0)
               EXCEPT !.crop = Some("crop"), !.fitMode = "fit"]])

\* A spread template is applied to the spread as a whole; a single-page template
\* may name the page it was dropped on.
LayoutCalls ==
    {[is_spread |-> TRUE, targetPageId |-> None]} \cup
    {[is_spread |-> FALSE, targetPageId |-> tg] : tg \in {None, Some(1), Some(2)}}

LayoutInputs ==
    { [layout |-> [name |-> "tpl", is_spread |-> c.is_spread, config |-> cfg],
       leftPage |-> lp, rightPage |-> rp, targetPageId |-> c.targetPageId,
       called |-> FALSE] :
        c \in LayoutCalls, cfg \in LayoutConfigs,
        lp \in {None} \cup {Some(InputPage(1, k)) : k \in SeqsUpTo(AssetKinds, MaxMedia)},
        rp \in {None} \cup {Some(InputPage(2, k)) : k \in SeqsUpTo(RightKinds, MaxRightMedia)} }

InitLayout ==
    /\ StoreInit
    /\ layoutIn \in {Some(i) : i \in LayoutInputs}
    /\ layoutOut = <<>>
    /\ callIn = None
    /\ callOut = None

applyLayoutTemplate ==
    /\ layoutIn # None
    /\ ~layoutIn[1].called
    /\ LET res == calculateLayoutApplication(layoutIn[1].layout,
                      layoutIn[1].leftPage, layoutIn[1].rightPage,
                      layoutIn[1].targetPageId, nextId)
       IN  /\ layoutOut' = res.updates
           /\ nextId' = res.idSource
    /\ layoutIn' = Some([layoutIn[1] EXCEPT !.called = TRUE])
    /\ UNCHANGED <<album, history, redoStack, currentPageIndex, selectedAssetId,
                   clock, upload, lastOp, made, pos, branches>>
    /\ UNCHANGED <<callVars, backendVars>>

NextLayout == applyLayoutTemplate

SpecLayout == InitLayout /\ [][NextLayout]_vars

(***************************************************************************)
(* The history stacks in depth: a loaded album, one kind of edit, undo and *)
(* redo, far enough to fill the undo stack and evict from it.              *)
(***************************************************************************)
InitHist ==
    /\ db = DbOf({"A", "B"})
    /\ album = FetchedAlbum("A", 1)
    /\ history = <<>>
    /\ redoStack = <<>>
    /\ currentPageIndex = 0
    /\ selectedAssetId = None
    /\ nextId = 5
    /\ clock = 1
    /\ upload = None
    /\ lastOp = [name |-> "fetchAlbum", locked |-> FALSE, redoLen |-> 0]
    /\ made = <<FetchedAlbum("A", 1)>>
    /\ pos = 1
    /\ branches = 0
    /\ layoutIn = None
    /\ layoutOut = <<>>
    /\ callIn = None
    /\ callOut = None
    /\ saveCall = NoSave
    /\ isSaving = FALSE

\* An edit of SpecHist: at most MaxHistEdits aggregates, at most MaxBranches of
\* them built while the redo stack holds something.
EvHist(A) ==
    /\ clock < MaxHistEdits
    /\ redoStack = <<>> \/ branches < MaxBranches
    /\ A
    /\ UNCHANGED otherVars

NextHist ==
    \/ EvHist(toggleSpreadView)
    \/ undo /\ UNCHANGED otherVars
    \/ redo /\ UNCHANGED otherVars

SpecHist == InitHist /\ [][NextHist]_vars

(***************************************************************************)
(* Properties of the page list and of the lock.                            *)
(***************************************************************************)
\* C1: in every state the store reaches through addPage, removePage,
\* duplicatePage, movePage and reorderPages, with undo and redo in between, the
\* pageNumber values of album.pages in list order are 1, 2, ..., N.
C1_PageNumbersContiguous ==
    album # Null =>
        \A i \in 1..Len(album.pages) : album.pages[i].pageNumber = i

\* An undo has just taken back an operation that changed the number of pages.
C1_Witness ==
    /\ album # Null
    /\ lastOp.name = "undo"
    /\ redoStack # <<>>
    /\ Len(Last(redoStack).pages) # Len(album.pages)
    /\ \E i \in 1..Len(Last(redoStack).pages) :
          Last(redoStack).pages[i].id \notin PageIds(album)

\* The operations that test config.isLocked before anything else.
GuardedOps ==
    {"addPage", "removePage", "updatePage", "addAsset", "updateAsset",
     "removeAsset", "duplicateAsset", "updateAssetZIndex", "addMediaByUrl",
     "moveFromLibrary", "applyLayout", "duplicatePage", "movePage",
     "reorderPages", "updateConfig", "toggleSpreadView", "syncStyles",
     "updatePageAssets", "moveAssetToPage"}

PagesHolding(a, id) ==
    Cardinality({i \in 1..Len(a.pages) :
                    \E j \in 1..Len(a.pages[i].assets) : a.pages[i].assets[j].id = id})

\* C3: a moveAssetToPage step keeps every asset that was on exactly one page's
\* asset list on exactly one page's asset list, whatever fromPageId and toPageId.
C3_MoveKeepsAssetOnOnePage ==
    [][(clock' # clock /\ lastOp'.name = "moveAssetToPage")
          => \A x \in AllPageAssets(album) :
                PagesHolding(album, x.id) = 1 => PagesHolding(album', x.id) = 1]_vars

\* C4: with useSpreadView true, when getSpread(i) is a pair, getSpread at the
\* index of either page of the pair is the same pair.
C4_SpreadSymmetric ==
    (album # Null /\ album.config.useSpreadView) =>
        \A i, j \in 0..(Len(album.pages) - 1) :
            LET s == getSpread(album, i)
            IN  (Len(s) = 2 /\ album.pages[j + 1] \in Range(s))
                    => getSpread(album, j) = s

(***************************************************************************)
(* Properties of the undo and redo stacks.                                 *)
(***************************************************************************)
\* C5: as long as no more than 20 edits were made since A0 = made[1], the album
\* after any undo and redo calls is the aggregate of the chain A0..AN that linear
\* history points at (k undos after N edits leave A(N-k)); and in every state
\* with something to undo, undo followed by redo gives back the album, the undo
\* stack and the redo stack.
C5_UndoRedoExact ==
    album # Null =>
        /\ clock - 1 <= 20 => (pos \in 1..Len(made) /\ album = made[pos])
        /\ history # <<>> =>
              LET u == UndoResult(album, history, redoStack)
              IN  RedoResult(u[1], u[2], u[3]) = <<album, history, redoStack>>

\* Twenty edits, twenty undos back to A0, and one redo.
C5_Witness ==
    /\ clock - 1 = 20
    /\ Len(made) = 21
    /\ lastOp.name = "redo"
    /\ pos = 2
    /\ Len(redoStack) = 19

\* C6: a step of any operation other than undo and redo that changes the album
\* leaves the redo stack empty, so that a redo called next changes nothing.
C6_EditClearsRedo ==
    [][(album' # album /\ lastOp'.name \notin {"undo", "redo"})
          => /\ redoStack' = <<>>
             /\ RedoResult(album', history', redoStack')
                    = <<album', history', redoStack'>>]_vars

\* An uploadMedia batch that was started with something to redo has completed.
C6_Witness ==
    /\ lastOp.name = "uploadMediaFinish"
    /\ lastOp.redoLen > 0
    /\ redoStack = <<>>

\* C7: the undo stack never holds more than 20 snapshots, and an edit made with
\* 20 snapshots stored drops the oldest one and keeps the others in order,
\* followed by the aggregate the edit replaced.
C7_UndoStackBounded ==
    /\ [](Len(history) <= 20)
    /\ [][(clock' # clock /\ Len(history) = 20)
             => history' = Append(Tail(history), album)]_vars

\* A redo has pushed the undo stack back to 20 snapshots after an eviction.
C7_Witness ==
    /\ clock - 1 = 21
    /\ lastOp.name = "redo"
    /\ Len(history) = 20
    /\ made[1] \notin Range(history)

(***************************************************************************)
(* Properties of the layout template engine, stated on the arguments and   *)
(* the result of the call (layoutIn, layoutOut).                           *)
(***************************************************************************)
SingleCall ==
    /\ layoutIn # None
    /\ layoutIn[1].called
    /\ ~layoutIn[1].layout.is_spread
    /\ layoutIn[1].leftPage # None

SpreadCall ==
    /\ layoutIn # None
    /\ layoutIn[1].called
    /\ layoutIn[1].layout.is_spread
    /\ layoutIn[1].leftPage # None

\* The page a single-page template goes to: the right page when targetPageId
\* names it, the left page otherwise.
ClaimTarget ==
    LET in == layoutIn[1]
    IN  IF /\ in.targetPageId # None
           /\ in.rightPage # None
           /\ in.rightPage[1].id = in.targetPageId[1]
           /\ in.leftPage[1].id # in.targetPageId[1]
        THEN in.rightPage[1]
        ELSE in.leftPage[1]

ImagesAndVideos(assets) ==
    SelectSeq(assets, LAMBDA a : a.type \in {"image", "video"})
Others(assets) ==
    SelectSeq(assets, LAMBDA a : a.type \notin {"image", "video"})

\* The horizontal position a slot states: its x, else its left, else 0.
SlotX(slot) ==
    IF slot.x # None THEN slot.x[1] ELSE IF slot.left # None THEN slot.left[1] ELSE 0
SlotY(slot) ==
    IF slot.y # None THEN slot.y[1] ELSE IF slot.top # None THEN slot.top[1] ELSE 0

\* C8: a non-spread layout with S slots applied to a target page with M media
\* and K other assets gives one update, for that page, of K + S assets: the K
\* others unchanged and in order, then the first min(M,S) media in page order,
\* then max(0, S-M) new placeholders (empty url, isPlaceholder); media beyond
\* the S-th are not in it.
C8_SinglePageAssetCount ==
    SingleCall =>
        LET slots == layoutIn[1].layout.config
            media == ImagesAndVideos(ClaimTarget.assets)
            other == Others(ClaimTarget.assets)
            S == Len(slots)
            M == Len(media)
            K == Len(other)
        IN  /\ Len(layoutOut) = 1
            /\ layoutOut[1].pageId = ClaimTarget.id
            /\ LET out == layoutOut[1].assets
               IN  /\ Len(out) = K + S
                   /\ SubSeq(out, 1, K) = other
                   /\ \A i \in 1..S :
                         IF i <= M
                         THEN out[K + i].id = media[i].id /\ ~out[K + i].isPlaceholder
                         ELSE /\ out[K + i].url = ""
                              /\ out[K + i].isPlaceholder
                              /\ \A j \in 1..Len(ClaimTarget.assets) :
                                    ClaimTarget.assets[j].id # out[K + i].id
                   /\ Cardinality({i \in 1..Len(out) : out[i].isPlaceholder})
                         = Max(0, S - M)
                   /\ \A i \in (S + 1)..M : \A j \in 1..Len(out) :
                         out[j].id # media[i].id

\* A text asset is kept, the one image fills the first slot, a placeholder the second.
C8_Witness ==
    /\ SingleCall
    /\ Len(Others(ClaimTarget.assets)) >= 1
    /\ Len(ImagesAndVideos(ClaimTarget.assets)) >= 1
    /\ Len(layoutIn[1].layout.config) > Len(ImagesAndVideos(ClaimTarget.assets))
    /\ Len(layoutOut) = 1

\* C9: in a non-spread layout application the i-th media asset of the target
\* page, for i up to min(M,S), is the asset in the i-th slot: same id and url,
\* the slot's x, y, width, height and z_index, fitMode cover and no crop.
C9_MediaTakesSlotFrame ==
    SingleCall =>
        LET slots == layoutIn[1].layout.config
            media == ImagesAndVideos(ClaimTarget.assets)
            K == Len(Others(ClaimTarget.assets))
            out == layoutOut[1].assets
        IN  \A i \in 1..Min(Len(media), Len(slots)) :
                /\ out[K + i].id = media[i].id
                /\ out[K + i].url = media[i].url
                /\ out[K + i].type = media[i].type
                /\ out[K + i].x = SlotX(slots[i])
                /\ out[K + i].y = SlotY(slots[i])
                /\ out[K + i].width = slots[i].width
                /\ out[K + i].height = slots[i].height
                /\ out[K + i].zIndex = slots[i].z_index
                /\ out[K + i].fitMode = "cover"
                /\ out[K + i].crop = None

\* Two cropped media assets went into two slots, the second one placed by `left`.
C9_Witness ==
    /\ SingleCall
    /\ Len(ImagesAndVideos(ClaimTarget.assets)) = 2
    /\ Len(layoutIn[1].layout.config) = 2
    /\ layoutIn[1].layout.config[2].x = None
    /\ layoutIn[1].layout.config[2].left # None
    /\ ClaimTarget.assets[2].crop # None
    /\ Len(layoutOut) = 1

\* The slots of a spread template by side, in template order.
ClaimLeftSlots == SelectSeq(layoutIn[1].layout.config, LAMBDA sl : SlotX(sl) < 100)
ClaimRightSlots == SelectSeq(layoutIn[1].layout.config, LAMBDA sl : SlotX(sl) >= 100)

RightAssets ==
    IF layoutIn[1].rightPage # None THEN layoutIn[1].rightPage[1].assets ELSE <<>>

\* The media of the left page followed by the media of the right page.
Pooled ==
    ImagesAndVideos(layoutIn[1].leftPage[1].assets) \o ImagesAndVideos(RightAssets)

\* out is what a page gets: its other assets, then one asset per slot, the
\* (offset + i)-th pooled media asset in slot i while there is one, a placeholder
\* after that, each at the slot's x less shift.
PageFilled(out, other, slots, offset, shift) ==
    /\ Len(out) = Len(other) + Len(slots)
    /\ SubSeq(out, 1, Len(other)) = other
    /\ \A i \in 1..Len(slots) :
          LET a == out[Len(other) + i]
          IN  /\ a.x = SlotX(slots[i]) - shift
              /\ a.zIndex = slots[i].z_index
              /\ IF offset + i <= Len(Pooled)
                 THEN a.id = Pooled[offset + i].id /\ ~a.isPlaceholder
                 ELSE a.url = "" /\ a.isPlaceholder

\* No asset id occurs twice in the updates, on one page or on both.
NoAssetTwice ==
    \A u, v \in 1..Len(layoutOut) :
        \A i \in 1..Len(layoutOut[u].assets), j \in 1..Len(layoutOut[v].assets) :
            (u # v \/ i # j) => layoutOut[u].assets[i].id # layoutOut[v].assets[j].id

LeftPageFilled ==
    /\ Len(layoutOut) >= 1
    /\ layoutOut[1].pageId = layoutIn[1].leftPage[1].id
    /\ PageFilled(layoutOut[1].assets, Others(layoutIn[1].leftPage[1].assets),
                  ClaimLeftSlots, 0, 0)

RightPageFilled ==
    /\ Len(layoutOut) = 2
    /\ layoutIn[1].rightPage # None => layoutOut[2].pageId = layoutIn[1].rightPage[1].id
    /\ PageFilled(layoutOut[2].assets, Others(RightAssets), ClaimRightSlots,
                  Len(ClaimLeftSlots), 100)

\* C10 as stated: in a spread layout application the slots with x < 100 go to
\* the left page and those with x >= 100 to the right page at x - 100, the pooled
\* media fill the left slots and then the right slots in order, every slot
\* without media gets a placeholder, and no media asset is placed twice.
C10_SpreadFillsEverySlot ==
    SpreadCall =>
        /\ LeftPageFilled
        /\ (ClaimRightSlots # <<>> \/ layoutIn[1].rightPage # None) => RightPageFilled
        /\ NoAssetTwice

\* C10 with the right page's part limited to calls that pass a right page: then
\* the right-page slots are filled as stated; without a right page the result
\* is the left page's update alone, and the slots with x >= 100 get neither
\* media nor a placeholder.
C10_SpreadFillsSlotsOfGivenPages ==
    SpreadCall =>
        /\ LeftPageFilled
        /\ layoutIn[1].rightPage # None => RightPageFilled
        /\ layoutIn[1].rightPage = None => Len(layoutOut) = 1
        /\ NoAssetTwice

\* The second media asset of the left page went into a slot of the right page.
C10_Witness ==
    /\ SpreadCall
    /\ layoutIn[1].rightPage # None
    /\ ClaimLeftSlots # <<>>
    /\ ClaimRightSlots # <<>>
    /\ Len(layoutOut) = 2
    /\ \E i \in 1..Len(layoutOut[2].assets), j \in 1..Len(layoutIn[1].leftPage[1].assets) :
          layoutOut[2].assets[i].id = layoutIn[1].leftPage[1].assets[j].id

(***************************************************************************)
(* Snap engine: findSnappingPoints (src/src/components/editor/             *)
(* EditorCanvas.tsx, lines 72-149).  Coordinates are percentages; the      *)
(* model counts them in 24ths of a percent, so that the column positions   *)
(* i * 100 / 12 and the half widths are whole numbers, and computes        *)
(* exactly where the code computes in floating point.                      *)
(***************************************************************************)
SnapUnit == 24                            \* 1 percent; snapThreshold = 1.0
ColWidth == (100 * SnapUnit) \div 12      \* colWidth = 100 / 12
Bleed == 3 * SnapUnit                     \* bleed = 3
PageCenter == 50 * SnapUnit               \* pageCenterX = pageCenterY = 50
SpreadCenter == 100 * SnapUnit            \* spreadCenter = 100

Abs(v) == IF v < 0 THEN 0 - v ELSE v

\* Math.round(v / 1) * 1: the nearest whole percent, halves upwards.
RoundPercent(v) == ((v + SnapUnit \div 2) \div SnapUnit) * SnapUnit

Guide(type, p) == [type |-> type, pos |-> p]

\* for (let i = 0; i <= (nextPage ? 24 : 12); i++): column i against the
\* left edge (ColumnSnap), then against the right edge (ColumnRight).
RECURSIVE ColumnSnap(_, _, _, _, _)
RECURSIVE ColumnRight(_, _, _, _, _)
ColumnSnap(i, lastCol, snappedX, w, guides) ==
    IF i > lastCol THEN [snappedX |-> snappedX, guides |-> guides]
    ELSE IF Abs(snappedX - i * ColWidth) < SnapUnit
         THEN ColumnRight(i, lastCol, i * ColWidth, w,
                          Append(guides, Guide("v", i * ColWidth)))
         ELSE ColumnRight(i, lastCol, snappedX, w, guides)

ColumnRight(i, lastCol, snappedX, w, guides) ==
    IF Abs(snappedX + w - i * ColWidth) < SnapUnit
    THEN ColumnSnap(i + 1, lastCol, i * ColWidth - w, w,
                    Append(guides, Guide("v", i * ColWidth)))
    ELSE ColumnSnap(i + 1, lastCol, snappedX, w, guides)

\* otherAssets.forEach(target => ...): the left edge of target k (AssetSnap),
\* then its centre (AssetCenter), against the dragged rectangle.
RECURSIVE AssetSnap(_, _, _, _, _)
RECURSIVE AssetCenter(_, _, _, _, _)
AssetSnap(k, otherAssets, rect, snappedX, guides) ==
    IF k > Len(otherAssets) THEN [snappedX |-> snappedX, guides |-> guides]
    ELSE IF Abs(rect.x - otherAssets[k].x) < SnapUnit
         THEN AssetCenter(k, otherAssets, rect, otherAssets[k].x,
                          Append(guides, Guide("v", otherAssets[k].x)))
         ELSE AssetCenter(k, otherAssets, rect, snappedX, guides)

AssetCenter(k, otherAssets, rect, snappedX, guides) ==
    LET targetCenterX == otherAssets[k].x + otherAssets[k].width \div 2
    IN  IF Abs(rect.x + rect.w \div 2 - targetCenterX) < SnapUnit
        THEN AssetSnap(k + 1, otherAssets, rect, targetCenterX - rect.w \div 2,
                       Append(guides, Guide("v", targetCenterX)))
        ELSE AssetSnap(k + 1, otherAssets, rect, snappedX, guides)

\* rect is draggingRect; otherAssets the page's visible assets but the dragged
\* one; nextPage whether the canvas shows a spread.
findSnappingPoints(rect, otherAssets, nextPage) ==
    LET canvasWidth == IF nextPage THEN 200 * SnapUnit ELSE 100 * SnapUnit
        cols == ColumnSnap(0, IF nextPage THEN 24 ELSE 12, RoundPercent(rect.x),
                           rect.w, <<>>)
        hitCX == Abs(rect.x + rect.w \div 2 - PageCenter) < SnapUnit
        x1 == IF hitCX THEN PageCenter - rect.w \div 2 ELSE cols.snappedX
        g1 == IF hitCX THEN Append(cols.guides, Guide("v", PageCenter))
              ELSE cols.guides
        hitCY == Abs(rect.y + rect.h \div 2 - PageCenter) < SnapUnit
        snappedY == IF hitCY THEN PageCenter - rect.h \div 2 ELSE RoundPercent(rect.y)
        g2 == IF hitCY THEN Append(g1, Guide("h", PageCenter)) ELSE g1
        hitBleedL == Abs(rect.x - Bleed) < SnapUnit
        x3 == IF hitBleedL THEN Bleed ELSE x1
        g3 == IF hitBleedL THEN Append(g2, Guide("v", Bleed)) ELSE g2
        hitBleedR == Abs(rect.x + rect.w - (canvasWidth - Bleed)) < SnapUnit
        x4 == IF hitBleedR THEN canvasWidth - Bleed - rect.w ELSE x3
        g4 == IF hitBleedR THEN Append(g3, Guide("v", canvasWidth - Bleed)) ELSE g3
        sib == AssetSnap(1, otherAssets, rect, x4, g4)
        hitSpread == nextPage /\ Abs(rect.x + rect.w \div 2 - SpreadCenter) < SnapUnit
        x5 == IF hitSpread THEN SpreadCenter - rect.w \div 2 ELSE sib.snappedX
        g5 == IF hitSpread THEN Append(sib.guides, Guide("v", SpreadCenter))
              ELSE sib.guides
    IN  [snappedX |-> x5, snappedY |-> snappedY, guides |-> g5]

(***************************************************************************)
(* The snap engine applied to bounded inputs.                              *)
(***************************************************************************)
\* Left edges from 7 to 9 1/3 percent in twelfths, and 0, 2.5 and 3 percent.
SnapXs == {2 * k : k \in 84..112} \cup {0, 60, 72}
\* Widths of 0.5, 8, 20 and 50 percent.
SnapWidths == {12, 192, 480, 1200}
\* No sibling, or one sibling 20 percent wide at 8 percent.
SnapSiblings == {<<>>, <<[x |-> 192, width |-> 480]>>}

SnapInputs ==
    { [fn |-> "findSnappingPoints",
       rect |-> [x |-> x, y |-> 240, w |-> w, h |-> 240],
       otherAssets |-> o, nextPage |-> np] :
        x \in SnapXs, w \in SnapWidths, o \in SnapSiblings, np \in BOOLEAN }

InitSnap ==
    /\ StoreInit
    /\ layoutIn = None
    /\ layoutOut = <<>>
    /\ callIn \in {Some(i) : i \in SnapInputs}
    /\ callOut = None

dragAsset ==
    /\ callIn # None
    /\ callIn[1].fn = "findSnappingPoints"
    /\ callOut = None
    /\ callOut' = Some(findSnappingPoints(callIn[1].rect, callIn[1].otherAssets,
                                          callIn[1].nextPage))
    /\ UNCHANGED <<storeVars, layoutVars, backendVars, callIn>>

NextSnap == dragAsset

SpecSnap == InitSnap /\ [][NextSnap]_vars

(***************************************************************************)
(* Page normalizer: normalizePageData (src/src/lib/normalization.ts).      *)
(* A JavaScript value is a record: t its kind, and its content under a     *)
(* field of its own (the characters of a string, the elements of an array, *)
(* the set of <<key, value>> pairs of an object).                          *)
(***************************************************************************)
Undef == [t |-> "undefined"]
JNull == [t |-> "null"]
NaN == [t |-> "NaN"]
JNum(n) == [t |-> "number", num |-> n]
JStr(str) == [t |-> "string", str |-> str]
JArr(items) == [t |-> "array", items |-> items]
JObj(pairs) == [t |-> "object", pairs |-> pairs]
\* An object literal, written as a record.
Lit(r) == JObj({<<f, r[f]>> : f \in DOMAIN r})
EmptyObj == JObj({})
JTrue == [t |-> "boolean", bool |-> TRUE]

\* The truthiness of if (v), !v, v || w and v && w.
Truthy(val) ==
    CASE val.t \in {"undefined", "null", "NaN"} -> FALSE
      [] val.t = "number" -> val.num # 0
      [] val.t = "string" -> val.str # ""
      [] val.t = "boolean" -> val.bool
      [] OTHER -> TRUE

Nullish(val) == val.t \in {"undefined", "null"}
OrJs(a, b) == IF Truthy(a) THEN a ELSE b          \* a || b
Coalesce2(a, b) == IF Nullish(a) THEN b ELSE a    \* a ?? b
IsArray(val) == val.t = "array"

\* val.f on a value that is neither null nor undefined.
Get(val, f) ==
    IF val.t = "object" /\ \E pr \in val.pairs : pr[1] = f
    THEN (CHOOSE pr \in val.pairs : pr[1] = f)[2]
    ELSE Undef
\* val?.f
OptGet(val, f) == IF Nullish(val) THEN Undef ELSE Get(val, f)
\* val.length > 0
LengthPositive(val) ==
    CASE val.t = "array" -> Len(val.items) > 0
      [] val.t = "string" -> val.str # ""
      [] OTHER -> Truthy(Get(val, "length")) /\ Get(val, "length").t = "number"
                  /\ Get(val, "length").num > 0

\* Number(val), for the values the model passes: numbers, null, undefined and
\* values that are not numeric.
ToNumber(val) ==
    CASE val.t = "number" -> val
      [] val.t = "null" -> JNum(0)
      [] val.t = "string" /\ val.str = "" -> JNum(0)
      [] val.t = "array" /\ val.items = <<>> -> JNum(0)
      [] OTHER -> NaN

\* JSON.parse on the strings the model uses: None stands for a SyntaxError.
JSONParse(str) ==
    CASE str = "[]" -> Some(JArr(<<>>))
      [] str = "{}" -> Some(EmptyObj)
      [] str = "5" -> Some(JNum(5))
      [] str = "null" -> Some(JNull)
      [] str = "[{\"role\":\"text\"}]" -> Some(JArr(<<Lit([role |-> JStr("text")])>>))
      [] str = "[{\"id\":\"s1\"}]" -> Some(JArr(<<Lit([id |-> JStr("s1")])>>))
      [] OTHER -> None

\* safeParse(data, fallback), lines 10-20.  JSON.parse of a number is the number.
safeParse(data, fallback) ==
    IF ~Truthy(data) THEN fallback
    ELSE IF data.t \in {"object", "array"} THEN data
    ELSE IF data.t = "string" /\ data.str \in {"null", "undefined"} THEN fallback
    ELSE IF data.t = "string"
         THEN IF JSONParse(data.str) = None THEN fallback ELSE JSONParse(data.str)[1]
         ELSE data

\* [...val]: an array spreads to its elements; a number, an object, null and
\* undefined are not iterable.  The model spreads no string.
Iterable(val) == val.t = "array"
Elements(val) == IF val.t = "array" THEN val.items ELSE <<>>

Generated == JStr("generated-id")                 \* generateId()
PageKey(n) == [t |-> "template", page_number |-> n]         \* `page-${p.page_number}`
Threw == [threw |-> TRUE]                         \* a TypeError leaves the call
Returned(page) == [threw |-> FALSE, page |-> page]

\* Lines 28-31: the first source that is a non-empty array, else whatever exists.
NonEmptyArray(d) == Truthy(d) /\ IsArray(d) /\ Len(d.items) > 0
layoutArrayOf(p) ==
    LET configData == safeParse(Get(p, "layout_config"), JNull)
        jsonData == safeParse(Get(p, "layout_json"), JNull)
        contentData == safeParse(Get(p, "content"), JNull)
    IN  IF NonEmptyArray(configData) THEN configData
        ELSE IF NonEmptyArray(jsonData) THEN jsonData
        ELSE IF NonEmptyArray(contentData) THEN contentData
        ELSE OrJs(configData, OrJs(jsonData, OrJs(contentData, JArr(<<>>))))

\* Lines 33-34.
textArrayOf(p) == safeParse(OrJs(Get(p, "text_layers"), JArr(<<>>)), JArr(<<>>))

\* Line 42.
isUnified(p) ==
    /\ IsArray(layoutArrayOf(p))
    /\ \/ Len(layoutArrayOf(p).items) > 0
       \/ Truthy(Get(p, "layout_config"))
       \/ Truthy(Get(p, "layout_json"))

\* Lines 50-63: a layout box synthesized from an asset row.
AssetFrame(a) ==
    Lit([id |-> Get(a, "id"),
         role |-> JStr("freeform"),
         left |-> OrJs(Get(a, "x"), JNum(0)),
         top |-> OrJs(Get(a, "y"), JNum(0)),
         width |-> OrJs(Get(a, "width"), JNum(30)),
         height |-> OrJs(Get(a, "height"), JNum(30)),
         zIndex |-> OrJs(Get(a, "z_index"), JNum(10)),
         content |-> Lit([type |-> OrJs(Get(a, "asset_type"),
                                        OrJs(Get(a, "type"), JStr("image"))),
                          url |-> Get(a, "url"),
                          config |-> OrJs(Get(a, "config"), EmptyObj)])])

\* frame.content?.text || frame.content?.config?.content || frame.content || last
FrameText(frame, last) ==
    OrJs(OptGet(Get(frame, "content"), "text"),
         OrJs(OptGet(OptGet(Get(frame, "content"), "config"), "content"),
              OrJs(Get(frame, "content"), last)))

FrameConfig(frame) ==
    OrJs(OptGet(Get(frame, "content"), "config"), OrJs(Get(frame, "config"), EmptyObj))

\* Number(frame.f ?? frame.g ?? d)
NumberOf(frame, f, g, d) ==
    ToNumber(Coalesce2(Get(frame, f), Coalesce2(Get(frame, g), JNum(d))))
\* Number(frame.content?.f ?? frame.g ?? d)
ContentNumberOf(frame, f, g, d) ==
    ToNumber(Coalesce2(OptGet(Get(frame, "content"), f),
                       Coalesce2(Get(frame, g), JNum(d))))

\* Lines 70-88.
VisualBox(frame) ==
    [id |-> OrJs(Get(frame, "id"), Generated),
     role |-> OrJs(Get(frame, "role"), JStr("slot")),
     left |-> NumberOf(frame, "left", "x", 0),
     top |-> NumberOf(frame, "top", "y", 0),
     width |-> ToNumber(Coalesce2(Get(frame, "width"), JNum(30))),
     height |-> ToNumber(Coalesce2(Get(frame, "height"), JNum(30))),
     zIndex |-> NumberOf(frame, "zIndex", "z", 10),
     content |->
        [type |-> OrJs(OptGet(Get(frame, "content"), "type"),
                       OrJs(Get(frame, "type"), JStr("image"))),
         url |-> OrJs(OptGet(Get(frame, "content"), "url"),
                      OrJs(Get(frame, "url"), JNull)),
         zoom |-> ContentNumberOf(frame, "zoom", "zoom", 1),
         x |-> ContentNumberOf(frame, "x", "focalX", 50),
         y |-> ContentNumberOf(frame, "y", "focalY", 50),
         rotation |-> ContentNumberOf(frame, "rotation", "rotation", 0),
         text |-> FrameText(frame, JNull),
         config |-> FrameConfig(frame)]]

\* Lines 92-110.
TextBox(frame) ==
    [id |-> OrJs(Get(frame, "id"), Generated),
     role |-> JStr("text"),
     left |-> NumberOf(frame, "left", "x", 0),
     top |-> NumberOf(frame, "top", "y", 0),
     width |-> ToNumber(Coalesce2(Get(frame, "width"), JNum(50))),
     height |-> ToNumber(Coalesce2(Get(frame, "height"), JNum(10))),
     zIndex |-> NumberOf(frame, "zIndex", "z", 50),
     content |->
        [type |-> JStr("text"),
         url |-> Undef,
         zoom |-> JNum(1),
         x |-> JNum(50),
         y |-> JNum(50),
         rotation |-> ToNumber(OrJs(OptGet(Get(frame, "content"), "rotation"),
                                    OrJs(Get(frame, "rotation"), JNum(0)))),
         text |-> FrameText(frame, JStr("Double click to edit")),
         config |-> FrameConfig(frame)]]

IsVisualItem(item) == Truthy(item) /\ Get(item, "role") # JStr("text")
IsTextItem(item) ==
    Truthy(item) /\ (Get(item, "role") = JStr("text") \/ Get(item, "type") = JStr("text"))

RECURSIVE MapVisual(_)
MapVisual(items) ==
    IF items = <<>> THEN <<>>
    ELSE (IF IsVisualItem(Head(items)) THEN <<VisualBox(Head(items))>> ELSE <<>>)
         \o MapVisual(Tail(items))

RECURSIVE MapText(_)
MapText(items) ==
    IF items = <<>> THEN <<>>
    ELSE (IF IsTextItem(Head(items)) THEN <<TextBox(Head(items))>> ELSE <<>>)
         \o MapText(Tail(items))

\* Lines 112-117.
pageStylesOf(p) ==
    [backgroundColor |->
        OrJs(OptGet(Get(p, "page_styles"), "backgroundColor"),
             OrJs(OptGet(Get(p, "background_config"), "color"),
                  OrJs(Get(p, "background_color"), JStr("#ffffff")))),
     backgroundOpacity |->
        ToNumber(Coalesce2(OptGet(Get(p, "page_styles"), "backgroundOpacity"),
                 Coalesce2(OptGet(Get(p, "background_config"), "opacity"),
                 Coalesce2(Get(p, "background_opacity"), JNum(100))))),
     backgroundImage |->
        OrJs(OptGet(Get(p, "page_styles"), "backgroundImage"),
             OrJs(OptGet(Get(p, "background_config"), "image"),
                  OrJs(Get(p, "background_image"), Undef))),
     backgroundBlendMode |->
        OrJs(OptGet(Get(p, "page_styles"), "backgroundBlendMode"),
             OrJs(OptGet(Get(p, "background_config"), "blendMode"), JStr("normal")))]

\* Lines 44-130.  p.assets.map throws on a value that is no array and on an
\* element that is null; the spread of textArray throws on a value that is
\* not iterable.
unifiedPage(p) ==
    LET layoutArray == layoutArrayOf(p)
        rows == Get(p, "assets")
        useAssets == Len(layoutArray.items) = 0 /\ Truthy(rows) /\ LengthPositive(rows)
        finalLayoutArray ==
            IF useAssets THEN [i \in 1..Len(rows.items) |-> AssetFrame(rows.items[i])]
            ELSE layoutArray.items
        allItems == finalLayoutArray \o Elements(textArrayOf(p))
    IN  IF useAssets /\ ~IsArray(rows) THEN Threw
        ELSE IF useAssets /\ \E i \in 1..Len(rows.items) : Nullish(rows.items[i]) THEN Threw
        ELSE IF ~Iterable(textArrayOf(p)) THEN Threw
        ELSE Returned(
            [id |-> OrJs(Get(p, "id"), PageKey(Get(p, "page_number"))),
             pageNumber |-> Get(p, "page_number"),
             layoutTemplate |-> OrJs(Get(p, "layout_template"),
                                     OrJs(Get(p, "template_id"), JStr("freeform"))),
             layoutConfig |-> MapVisual(allItems),
             textLayers |-> MapText(allItems),
             pageStyles |-> pageStylesOf(p),
             backgroundColor |-> pageStylesOf(p).backgroundColor,
             backgroundOpacity |-> pageStylesOf(p).backgroundOpacity,
             backgroundImage |-> pageStylesOf(p).backgroundImage,
             assets |-> <<>>])

\* Lines 134-141.
restoredType(a) ==
    IF Truthy(OptGet(Get(a, "config"), "originalType"))
    THEN OptGet(Get(a, "config"), "originalType")
    ELSE IF Get(a, "asset_type") = JStr("image")
            /\ Truthy(OptGet(Get(a, "config"), "mapConfig"))
    THEN JStr("map")
    ELSE IF Get(a, "asset_type") = JStr("text")
            /\ (Truthy(OptGet(Get(a, "config"), "location"))
                \/ Truthy(OptGet(Get(a, "config"), "isLocation")))
    THEN JStr("location")
    ELSE Get(a, "asset_type")

\* {...base, ...over}: the keys of over replace those of base.  The model
\* spreads objects only.
SpreadOver(base, over) ==
    IF over.t # "object" THEN base
    ELSE JObj(over.pairs \cup {pr \in base.pairs : ~\E po \in over.pairs : po[1] = pr[1]})

\* Lines 143-150.
legacyAsset(a) ==
    SpreadOver(Lit([id |-> Get(a, "id"),
                    type |-> restoredType(a),
                    url |-> Get(a, "url"),
                    zIndex |-> OrJs(Get(a, "z_index"), JNum(0)),
                    slotId |-> Get(a, "slot_id")]),
               OrJs(Get(a, "config"), EmptyObj))

\* Lines 132-164.  (p.assets || []).map throws on a value that is no array and
\* a.asset_type on an element that is null.
legacyPage(p) ==
    LET rows == OrJs(Get(p, "assets"), JArr(<<>>))
    IN  IF ~IsArray(rows) THEN Threw
        ELSE IF \E i \in 1..Len(rows.items) : Nullish(rows.items[i]) THEN Threw
        ELSE Returned(
            [id |-> Get(p, "id"),
             pageNumber |-> Get(p, "page_number"),
             layoutTemplate |-> OrJs(Get(p, "template_id"), JStr("freeform")),
             backgroundColor |-> OrJs(Get(p, "background_color"), JStr("#ffffff")),
             backgroundOpacity |-> Coalesce2(Get(p, "background_opacity"), JNum(100)),
             backgroundImage |-> Get(p, "background_image"),
             assets |-> [i \in 1..Len(rows.items) |-> legacyAsset(rows.items[i])],
             layoutConfig |-> <<>>,
             textLayers |-> <<>>])

normalizePageData(p) == IF isUnified(p) THEN unifiedPage(p) ELSE legacyPage(p)

(***************************************************************************)
(* The normalizer applied to bounded records.                              *)
(***************************************************************************)
Malformed == JStr("{bad")
SlotItem == Lit([id |-> JStr("s1"), left |-> JNum(5), top |-> JNum(5)])
TextItem == Lit([role |-> JStr("text"), content |-> Lit([text |-> JStr("hello")])])
\* A text box that carries its kind under type, with the role of a free frame.
TypedTextItem == Lit([id |-> JStr("t1"), role |-> JStr("freeform"), type |-> JStr("text")])

RowConfigs ==
    {Undef, EmptyObj,
     Lit([mapConfig |-> EmptyObj]),
     Lit([originalType |-> JStr("sticker")]),
     Lit([isLocation |-> JTrue]),
     Lit([location |-> JStr("Paris")]),
     Lit([mapConfig |-> EmptyObj, type |-> JStr("image")]),
     Lit([x |-> JNum(10), y |-> JNum(10), width |-> JNum(20), height |-> JNum(20)])}

AssetRow(id, assetType, z, config) ==
    Lit([id |-> JStr(id), x |-> JNum(10), y |-> JNum(10), width |-> JNum(20),
         height |-> JNum(20), z_index |-> JNum(z), url |-> JStr("u"),
         asset_type |-> JStr(assetType), config |-> config])

AssetRows ==
    {AssetRow("a1", ty, z, c) : ty \in {"image", "text", "video"}, z \in {0, 5},
                                c \in RowConfigs}

AssetsInputs ==
    {Undef, Malformed, JStr("[]"), EmptyObj, JArr(<<>>), JArr(<<JNull>>)}
    \cup {JArr(<<r>>) : r \in AssetRows}
    \cup {JArr(<<AssetRow("a1", "image", 5, Undef), AssetRow("a2", "text", z, Undef)>>) :
            z \in {0, 7}}

LayoutConfigInputs ==
    {Undef, Malformed, JStr("[]"), JStr("{}"), JStr("5"), EmptyObj, JArr(<<>>),
     JArr(<<SlotItem>>)}
LayoutJsonInputs == {Undef, JStr("[{\"id\":\"s1\"}]")}
ContentInputs == {Undef, Malformed, JStr("[]")}
TextLayersInputs ==
    {Undef, Malformed, JStr("[{\"role\":\"text\"}]"), JStr("{}"), JStr("5"), EmptyObj,
     JArr(<<TextItem>>), JArr(<<TypedTextItem, TextItem>>)}

NormInputs ==
    { [fn |-> "normalizePageData",
       p |-> Lit([id |-> JStr("p1"), page_number |-> JNum(2),
                  layout_config |-> lc, layout_json |-> lj, content |-> ct,
                  text_layers |-> tl, assets |-> rows])] :
        lc \in LayoutConfigInputs, lj \in LayoutJsonInputs, ct \in ContentInputs,
        tl \in TextLayersInputs, rows \in AssetsInputs }

InitNorm ==
    /\ StoreInit
    /\ layoutIn = None
    /\ layoutOut = <<>>
    /\ callIn \in {Some(i) : i \in NormInputs}
    /\ callOut = None

loadPage ==
    /\ callIn # None
    /\ callIn[1].fn = "normalizePageData"
    /\ callOut = None
    /\ callOut' = Some(normalizePageData(callIn[1].p))
    /\ UNCHANGED <<storeVars, layoutVars, backendVars, callIn>>

NextNorm == loadPage

SpecNorm == InitNorm /\ [][NextNorm]_vars

(***************************************************************************)
(* saveAlbum (src/src/contexts/AlbumContext.tsx, lines 870-1041) and the   *)
(* failing path of fetchAlbum.  saveCall.pc is the backend call the save   *)
(* is about to issue; every backend call resolves with or without an       *)
(* error.  saveCall.album is the aggregate the call closed over,           *)
(* saveCall.calls the calls that resolved, saveCall.found the ids the last *)
(* select returned, saveCall.row the next row of a page upsert;            *)
(* saveCall.stored (the album's page ids in store when the call began) and *)
(* saveCall.n (the saves begun) only record what happened.                 *)
(***************************************************************************)
ShiftBase == 10000       \* (p.page_number || 0) + 10000

\* pagesPayload (lines 898-905)
pagePayloadRow(a, page) ==
    [id |-> page.id, album_id |-> a.id, page_number |-> page.pageNumber,
     template_id |-> page.layoutTemplate, background_color |-> page.backgroundColor]

pagesPayload(a) == [i \in 1..Len(a.pages) |-> pagePayloadRow(a, a.pages[i])]

\* One row of assetsPayload (lines 908-966).
assetPayloadRow_NoZ(page, asset) ==
    [id |-> asset.id, page_id |-> page.id, asset_type |-> asset.type,
     url |-> asset.url, z_index |-> 0,
     config |-> [x |-> asset.x, y |-> asset.y, width |-> asset.width,
                 height |-> asset.height, rotation |-> asset.rotation,
                 scale |-> asset.scale, opacity |-> asset.opacity,
                 crop |-> asset.crop, isPlaceholder |-> asset.isPlaceholder,
                 fitMode |-> asset.fitMode,
                 lockAspectRatio |-> asset.lockAspectRatio]]

assetPayloadRow(page, asset) ==
    [id |-> asset.id, page_id |-> page.id, asset_type |-> asset.type,
     url |-> asset.url, z_index |-> OrDefault(asset.zIndex, 0),
     config |-> [x |-> asset.x, y |-> asset.y, width |-> asset.width,
                 height |-> asset.height, rotation |-> asset.rotation,
                 scale |-> asset.scale, opacity |-> asset.opacity,
                 crop |-> asset.crop, isPlaceholder |-> asset.isPlaceholder,
                 fitMode |-> asset.fitMode,
                 lockAspectRatio |-> asset.lockAspectRatio]]

\* album.pages.flatMap(page => page.assets.map(...)), as the set of its rows.
assetsPayload(a) ==
    UNION {{assetPayloadRow(a.pages[i], a.pages[i].assets[j]) :
                j \in 1..Len(a.pages[i].assets)} : i \in 1..Len(a.pages)}

\* upsert of one row: the row replaces the stored row of the same id.
UpsertRow(rows, row) == {r \in rows : r.id # row.id} \cup {row}

\* upsert of one row of shiftPayload, which names id, page_number and album_id:
\* a stored row keeps its other columns, a new row has none.
UpsertShiftRow(rows, row) ==
    IF \E r \in rows : r.id = row.id
    THEN {IF r.id = row.id
          THEN [r EXCEPT !.page_number = row.page_number + ShiftBase,
                         !.album_id = row.album_id]
          ELSE r : r \in rows}
    ELSE rows \cup {[id |-> row.id, album_id |-> row.album_id,
                     page_number |-> row.page_number + ShiftBase,
                     template_id |-> "null", background_color |-> "null"]}

RECURSIVE UpsertAll(_, _)
UpsertAll(rows, payload) ==
    IF payload = {} THEN rows
    ELSE LET row == CHOOSE r \in payload : TRUE
         IN  UpsertAll(UpsertRow(rows, row), payload \ {row})

currentPageIds(a) == {a.pages[i].id : i \in 1..Len(a.pages)}
currentAssetIds(a) == {r.id : r \in assetsPayload(a)}

\* if (error) throw error: an error ends the sequence, anything else goes on.
AfterCall_Swallow(outcome, nextPc) == nextPc

AfterCall(outcome, nextPc) == IF outcome = "error" THEN "done" ELSE nextPc

\* The call resolved: what saveAlbum does next; at the end (return in try or
\* in catch, then finally) the result is set.
Resolve(call, outcome, nextPc) ==
    [saveCall EXCEPT
        !.calls = Append(@, [call |-> call, outcome |-> outcome]),
        !.pc = AfterCall(outcome, nextPc),
        !.result = IF AfterCall(outcome, nextPc) = "done"
                   THEN Some([success |-> outcome # "error"]) ELSE None,
        !.row = 1]

\* A step of saveAlbum: the editor state stays, isSaving is true until the end.
SaveStep(newCall, newDb) ==
    /\ saveCall' = newCall
    /\ db' = newDb
    /\ isSaving' = IF newCall.pc = "done" THEN FALSE
                   ELSE IF saveCall.pc \in {"idle", "done"} THEN TRUE
                   ELSE isSaving
    /\ lastOp' = Op("saveAlbum")
    /\ UNCHANGED <<album, history, redoStack, currentPageIndex, selectedAssetId,
                   nextId, clock, upload, made, pos, branches, layoutVars, callVars>>

\* Where the sequence goes after the orphan cleanup, and after the pages.
PagesPc(a) == IF Len(a.pages) > 0 THEN "shiftPages"
              ELSE IF assetsPayload(a) # {} THEN "upsertAssets" ELSE "done"
AssetsPc(a) == IF assetsPayload(a) # {} THEN "upsertAssets" ELSE "done"

Outcomes == {"ok", "error"}

\* Lines 871-872.
saveAlbumBegin ==
    /\ saveCall.pc \in {"idle", "done"}
    /\ saveCall.n < MaxSaves
    /\ IF album = Null
       THEN /\ saveCall' = [NoSave EXCEPT !.pc = "done",
                                          !.result = Some([success |-> FALSE]),
                                          !.n = saveCall.n + 1]
            /\ lastOp' = Op("saveAlbum")
            /\ UNCHANGED <<album, history, redoStack, currentPageIndex,
                           selectedAssetId, nextId, clock, upload, made, pos,
                           branches, layoutVars, callVars, db, isSaving>>
       ELSE SaveStep([NoSave EXCEPT
                        !.pc = "albumUpdate", !.album = album,
                        !.stored = {r.id : r \in {q \in db.pages : q.album_id = album.id}},
                        !.n = saveCall.n + 1], db)

\* Lines 875-895.  The update may match no row and report no error.
albumUpdate(outcome) ==
    /\ saveCall.pc = "albumUpdate"
    /\ SaveStep(Resolve("albumUpdate", outcome, "selectPages"),
                IF outcome = "ok"
                THEN [db EXCEPT !.albums[saveCall.album.id] =
                        [config |-> [saveCall.album.config EXCEPT
                                        !.unplacedMedia = saveCall.album.unplacedMedia]]]
                ELSE db)

\* Lines 970-978.
selectPages(outcome) ==
    /\ saveCall.pc = "selectPages"
    /\ LET dbPages == {r.id : r \in {q \in db.pages : q.album_id = saveCall.album.id}}
           pagesToDelete == dbPages \ currentPageIds(saveCall.album)
       IN  SaveStep([Resolve("selectPages", outcome,
                             IF pagesToDelete # {} THEN "deletePages"
                             ELSE "selectAssets")
                        EXCEPT !.found = IF outcome = "ok" THEN dbPages ELSE {}],
                    db)

\* Lines 980-986.
deletePages(outcome) ==
    /\ saveCall.pc = "deletePages"
    /\ LET pagesToDelete == saveCall.found \ currentPageIds(saveCall.album)
       IN  SaveStep(Resolve("deletePages", outcome, "selectAssets"),
                    IF outcome = "ok"
                    THEN [db EXCEPT !.pages = {r \in @ : r.id \notin pagesToDelete}]
                    ELSE db)

\* Lines 990-998.
selectAssets(outcome) ==
    /\ saveCall.pc = "selectAssets"
    /\ LET dbAssets == {r.id : r \in {q \in db.assets :
                                q.page_id \in currentPageIds(saveCall.album)}}
           assetsToDelete == dbAssets \ currentAssetIds(saveCall.album)
       IN  SaveStep([Resolve("selectAssets", outcome,
                             IF assetsToDelete # {} THEN "deleteAssets"
                             ELSE PagesPc(saveCall.album))
                        EXCEPT !.found = IF outcome = "ok" THEN dbAssets ELSE {}],
                    db)

\* Lines 1000-1006.
deleteAssets(outcome) ==
    /\ saveCall.pc = "deleteAssets"
    /\ LET assetsToDelete == saveCall.found \ currentAssetIds(saveCall.album)
       IN  SaveStep(Resolve("deleteAssets", outcome, PagesPc(saveCall.album)),
                    IF outcome = "ok"
                    THEN [db EXCEPT !.assets = {r \in @ : r.id \notin assetsToDelete}]
                    ELSE db)

\* Lines 1011-1019: the first pass, one row write per step; an error leaves
\* no row of the statement written.
shiftPagesError ==
    /\ saveCall.pc = "shiftPages"
    /\ saveCall.row = 1
    /\ SaveStep(Resolve("shiftPages", "error", "upsertPages"), db)

shiftPagesRow ==
    /\ saveCall.pc = "shiftPages"
    /\ LET payload == pagesPayload(saveCall.album)
           newDb == [db EXCEPT !.pages = UpsertShiftRow(@, payload[saveCall.row])]
       IN  IF saveCall.row < Len(payload)
           THEN SaveStep([saveCall EXCEPT !.row = @ + 1], newDb)
           ELSE SaveStep(Resolve("shiftPages", "ok", "upsertPages"), newDb)

\* Lines 1022-1024: the second pass.
upsertPagesError ==
    /\ saveCall.pc = "upsertPages"
    /\ saveCall.row = 1
    /\ SaveStep(Resolve("upsertPages", "error", AssetsPc(saveCall.album)), db)

upsertPagesRow ==
    /\ saveCall.pc = "upsertPages"
    /\ LET payload == pagesPayload(saveCall.album)
           newDb == [db EXCEPT !.pages = UpsertRow(@, payload[saveCall.row])]
       IN  IF saveCall.row < Len(payload)
           THEN SaveStep([saveCall EXCEPT !.row = @ + 1], newDb)
           ELSE SaveStep(Resolve("upsertPages", "ok", AssetsPc(saveCall.album)), newDb)

\* upsertAssets as it would be if the rows were built from the aggregate
\* current at the time of the write.
upsertAssets_Current(outcome) ==
    /\ saveCall.pc = "upsertAssets"
    /\ SaveStep(Resolve("upsertAssets", outcome, "done"),
                IF outcome = "ok"
                THEN [db EXCEPT !.assets = UpsertAll(@, assetsPayload(album))]
                ELSE db)

\* Lines 1028-1034.
upsertAssets(outcome) ==
    /\ saveCall.pc = "upsertAssets"
    /\ SaveStep(Resolve("upsertAssets", outcome, "done"),
                IF outcome = "ok"
                THEN [db EXCEPT !.assets = UpsertAll(@, assetsPayload(saveCall.album))]
                ELSE db)

\* fetchAlbum when the album select or the pages select reports an error
\* (lines 764, 772): the throw skips setAlbum, the catch returns the failure.
fetchAlbumFails_Reset(albumId) ==
    /\ lastOp' = Op("fetchAlbumFailed")
    /\ album' = Null
    /\ UNCHANGED <<history, redoStack, currentPageIndex, selectedAssetId, nextId,
                   clock, upload, made, pos, branches>>

fetchAlbumFails(albumId) ==
    /\ lastOp' = Op("fetchAlbumFailed")
    /\ UNCHANGED <<album, history, redoStack, currentPageIndex, selectedAssetId,
                   nextId, clock, upload, made, pos, branches>>

(***************************************************************************)
(* The editor with its backend: loads, a few edits, saves.  An edit or a   *)
(* load happens between saves, not while one is in progress.               *)
(***************************************************************************)
\* An edit: it ends what the last save left to look at.
EvEdit(A) ==
    /\ saveCall.pc \in {"idle", "done"}
    /\ album # Null
    /\ clock < MaxSaveEdits
    /\ A
    /\ saveCall' = [NoSave EXCEPT !.n = saveCall.n]
    /\ UNCHANGED <<layoutVars, callVars, db, isSaving>>

\* A load, successful or failing.
EvLoad(A) ==
    /\ saveCall.pc \in {"idle", "done"}
    /\ clock < MaxSaveEdits
    /\ A
    /\ UNCHANGED <<layoutVars, callVars, backendVars>>

NextSave ==
    \/ EvLoad(\E id \in {"A", "B"} : fetchAlbum(id))
    \/ EvLoad(\E id \in {"A", "B"} : fetchAlbumFails(id))
    \/ EvEdit(\E p \in PageIds(album) : removePage(p))
    \/ EvEdit(\E p \in PageIds(album), d \in {"left", "right"} : movePage(p, d))
    \/ EvEdit(\E p \in PageIds(album) : \E a \in AssetArgsOn(p) \ {-1} :
                removeAsset(p, a))
    \/ EvEdit(\E p \in PageIds(album) : \E a \in AssetArgsOn(p) \ {-1} :
                \E d \in {"front", "back"} : updateAssetZIndex(p, a, d))
    \/ saveAlbumBegin
    \/ \E o \in Outcomes \cup {"zeroRows"} : albumUpdate(o)
    \/ \E o \in Outcomes : selectPages(o)
    \/ \E o \in Outcomes : deletePages(o)
    \/ \E o \in Outcomes : selectAssets(o)
    \/ \E o \in Outcomes : deleteAssets(o)
    \/ shiftPagesError
    \/ shiftPagesRow
    \/ upsertPagesError
    \/ upsertPagesRow
    \/ \E o \in Outcomes : upsertAssets(o)

SpecSave == Init /\ [][NextSave]_vars

(***************************************************************************)
(* Canvas gestures (src/src/components/editor/EditorCanvas.tsx): the end   *)
(* of a drag (lines 544-584) and a move of a side handle (lines 1003-1066).*)
(* The canvas shows `page` alone (side single) or `page` and `nextPage`    *)
(* (sides left and right); offsets are whole percents of the page box.     *)
(***************************************************************************)
\* The assets of page pageId, none when no page has this id.
AssetsOfPage(pages, pageId) ==
    IF FindIndexById(pages, pageId) = -1 THEN <<>>
    ELSE pages[FindIndexById(pages, pageId) + 1].assets

\* page.assets.filter(a => a.id !== draggingId) as findSnappingPoints reads it.
SnapTargets(assets, draggingId) ==
    LET others == SelectSeq(assets, LAMBDA a : a.id # draggingId)
    IN  [k \in 1..Len(others) |->
            [x |-> others[k].x * SnapUnit, width |-> others[k].width * SnapUnit]]

\* onSnap(draggingRect) of the asset at absolute position (absoluteX, y).
DragSnap(asset, canvasPage, spread, absoluteX, y) ==
    findSnappingPoints([x |-> absoluteX * SnapUnit, y |-> y * SnapUnit,
                        w |-> asset.width * SnapUnit, h |-> asset.height * SnapUnit],
                       SnapTargets(AssetsOfPage(album.pages, canvasPage), asset.id),
                       spread)

\* onDragEnd of the asset assetId of page pageId, drawn on `side`, otherPage
\* being the other page of the spread (NoId on a single page).  The drags of
\* the model end on whole percents.
onDragEnd(pageId, assetId, side, otherPage, offsetXPercent, offsetYPercent) ==
    /\ album # Null
    /\ FindAsset(album.pages, pageId, assetId) # None
    /\ (side = "single") = (otherPage = NoId)
    /\ LET asset == FindAsset(album.pages, pageId, assetId)[1]
           absoluteX == (IF side = "right" THEN asset.x + 100 ELSE asset.x)
                            + offsetXPercent
           snapped == DragSnap(asset, IF side = "right" THEN otherPage ELSE pageId,
                               side # "single", absoluteX, asset.y + offsetYPercent)
           finalX == (IF side = "right" THEN snapped.snappedX - 100 * SnapUnit
                      ELSE snapped.snappedX) \div SnapUnit
           finalY == snapped.snappedY \div SnapUnit
       IN  /\ snapped.snappedX % SnapUnit = 0
           /\ snapped.snappedY % SnapUnit = 0
           /\ IF side = "left" /\ absoluteX > 100
              THEN moveAssetToPage(asset.id, pageId, otherPage, absoluteX - 100, finalY)
              ELSE IF side = "right" /\ absoluteX < 100
              THEN moveAssetToPage(asset.id, pageId, otherPage, absoluteX, finalY)
              ELSE updateAsset(pageId, asset.id, [x |-> finalX, y |-> finalY])

\* One mouse move on the side handle handleSide ('e' or 'w') of the asset,
\* dPctX percent away from where the button went down.
resizeSide(pageId, assetId, handleSide, dPctX) ==
    /\ album # Null
    /\ FindAsset(album.pages, pageId, assetId) # None
    /\ LET asset == FindAsset(album.pages, pageId, assetId)[1]
           newW == IF handleSide = "e" THEN asset.width + dPctX
                   ELSE asset.width - dPctX
           newX == IF handleSide = "w" THEN asset.x + dPctX ELSE asset.x
       IN  updateAsset(pageId, asset.id,
                       [width |-> Max(5, newW), height |-> Max(5, asset.height),
                        x |-> newX, y |-> asset.y, fitMode |-> "stretch",
                        crop |-> None])

\* Where the gestures of the model take an asset: 60 percent right and down,
\* or 30 percent left.
DragOffsets == {<<60, 60>>, <<-30, 0>>}

\* The other page of the canvas, for each side.
OtherPages(pageId, side) ==
    IF side = "single" THEN {NoId} ELSE PageIds(album) \ {pageId}

\* The editor with its backend and the gestures that place assets.  The edits
\* remove no page and no asset, so a save deletes no row.
NextDrag ==
    \/ EvLoad(\E id \in {"A", "B"} : fetchAlbum(id))
    \/ EvEdit(\E p \in PageIds(album) : \E a \in AssetArgsOn(p) \ {-1} :
                duplicateAsset(p, a))
    \/ EvEdit(\E p \in PageIds(album) : \E a \in AssetArgsOn(p) \ {-1} :
                \E side \in {"single", "left", "right"}, d \in DragOffsets :
                    \E o \in OtherPages(p, side) : onDragEnd(p, a, side, o, d[1], d[2]))
    \/ EvEdit(\E p \in PageIds(album) : \E a \in AssetArgsOn(p) \ {-1} :
                \E h \in {"e", "w"}, d \in DragOffsets : resizeSide(p, a, h, d[1]))
    \/ EvEdit(addMediaByUrl("url", "image"))
    \/ EvEdit(\E a \in LibraryArgs \ {-1}, p \in PageIds(album) : moveFromLibrary(a, p))
    \/ saveAlbumBegin
    \/ \E o \in Outcomes : albumUpdate(o)
    \/ \E o \in Outcomes : selectPages(o)
    \/ \E o \in Outcomes : selectAssets(o)
    \/ shiftPagesError
    \/ shiftPagesRow
    \/ upsertPagesError
    \/ upsertPagesRow
    \/ \E o \in Outcomes : upsertAssets(o)

SpecDrag == Init /\ [][NextDrag]_vars

(***************************************************************************)
(* toggleLock with its backend write (lines 1042-1068).  The optimistic    *)
(* update is the step toggleLock; the update of the albums row it then     *)
(* awaits is in flight in callIn until it resolves.  Of the keys of        *)
(* config the model carries useSpreadView, isLocked and unplacedMedia.     *)
(***************************************************************************)
\* Lines 1043-1066: the write carries { ...album.config, isLocked } of the
\* aggregate the callback closed over.  One write is in flight at a time.
toggleLockCall ==
    /\ callIn = None
    /\ toggleLock
    /\ callIn' = IF album = Null THEN None
                 ELSE Some([fn |-> "toggleLockWrite", id |-> album.id,
                            config |-> [album.config EXCEPT !.isLocked = ~@]])
    /\ UNCHANGED <<layoutVars, callOut, backendVars>>

\* The awaited update resolved; an error is logged and nothing else.
toggleLockWrite(outcome) ==
    /\ callIn # None
    /\ callIn[1].fn = "toggleLockWrite"
    /\ callIn' = None
    /\ db' = IF outcome = "ok"
             THEN [db EXCEPT !.albums[callIn[1].id].config = callIn[1].config]
             ELSE db
    /\ lastOp' = Op("toggleLockWrite")
    /\ UNCHANGED <<album, history, redoStack, currentPageIndex, selectedAssetId,
                   nextId, clock, upload, made, pos, branches, layoutVars, callOut,
                   saveCall, isSaving>>

\* The lock with everything that reads or writes config.isLocked, and one edit.
NextLock ==
    \/ Ev(\E id \in {"A", "B"} : fetchAlbum(id))
    \/ clock < MaxEdits /\ toggleLockCall
    \/ \E o \in Outcomes : toggleLockWrite(o)
    \/ Ev(\E u \in ConfigUpdates : updateConfig(u))
    \/ Ev(toggleSpreadView)
    \/ Ev(addPage("freeform"))
    \/ Ev(undo)
    \/ Ev(redo)

SpecLock == Init /\ [][NextLock]_vars

\* The lock and its write next to saveAlbum, which writes the same column.
NextLockSave ==
    \/ EvLoad(\E id \in {"A", "B"} : fetchAlbum(id))
    \/ EvEdit(addMediaByUrl("url", "image"))
    \/ clock < MaxSaveEdits /\ toggleLockCall
    \/ \E o \in Outcomes : toggleLockWrite(o)
    \/ saveAlbumBegin
    \/ \E o \in Outcomes : albumUpdate(o)
    \/ \E o \in Outcomes : selectPages(o)
    \/ \E o \in Outcomes : selectAssets(o)
    \/ shiftPagesError
    \/ shiftPagesRow
    \/ upsertPagesError
    \/ upsertPagesRow
    \/ \E o \in Outcomes : upsertAssets(o)

SpecLockSave == Init /\ [][NextLockSave]_vars

\* One step of an uploadMedia batch while a save may be in flight.
EvBusy(A) ==
    clock < MaxSaveEdits /\ A /\ UNCHANGED <<layoutVars, callVars, db, saveCall>>

\* saveAlbum and uploadMedia, the two calls that set isSaving, side by side.
NextBusy ==
    \/ EvLoad(\E id \in {"A", "B"} : fetchAlbum(id))
    \/ EvBusy(uploadMediaStart(MaxFiles))
    \/ EvBusy(\E ok \in BOOLEAN : uploadMediaFile(ok))
    \/ EvBusy(uploadMediaFinish)
    \/ saveAlbumBegin
    \/ \E o \in Outcomes : albumUpdate(o)
    \/ \E o \in Outcomes : selectPages(o)
    \/ \E o \in Outcomes : selectAssets(o)
    \/ shiftPagesError
    \/ shiftPagesRow
    \/ upsertPagesError
    \/ upsertPagesRow
    \/ \E o \in Outcomes : upsertAssets(o)

SpecBusy == Init /\ [][NextBusy]_vars

\* A load before the first save; an edit before a save or while one is
\* waiting on a backend call.
EvBefore(A) ==
    /\ saveCall.pc = "idle"
    /\ clock < MaxSaveEdits
    /\ A
    /\ UNCHANGED <<layoutVars, callVars, backendVars>>

EvDuring(A) ==
    /\ saveCall.pc # "done"
    /\ album # Null
    /\ clock < MaxSaveEdits
    /\ A
    /\ UNCHANGED <<layoutVars, callVars, backendVars>>

\* saveAlbum with the store changing under it.
NextSaveEdit ==
    \/ EvBefore(\E id \in {"A", "B"} : fetchAlbum(id))
    \/ EvDuring(\E p \in PageIds(album) : removePage(p))
    \/ EvDuring(\E p \in PageIds(album) : \E a \in AssetArgsOn(p) \ {-1} :
                  removeAsset(p, a))
    \/ EvDuring(\E p \in PageIds(album) : \E a \in AssetArgsOn(p) \ {-1} :
                  duplicateAsset(p, a))
    \/ EvDuring(addMediaByUrl("url", "image"))
    \/ saveAlbumBegin
    \/ \E o \in Outcomes : albumUpdate(o)
    \/ \E o \in Outcomes : selectPages(o)
    \/ \E o \in Outcomes : deletePages(o)
    \/ \E o \in Outcomes : selectAssets(o)
    \/ \E o \in Outcomes : deleteAssets(o)
    \/ shiftPagesError
    \/ shiftPagesRow
    \/ upsertPagesError
    \/ upsertPagesRow
    \/ \E o \in Outcomes : upsertAssets(o)

SpecSaveEdit == Init /\ [][NextSaveEdit]_vars

(***************************************************************************)
(* Two mutations called by one UI handler, before the provider renders     *)
(* again: both callbacks are those of the last render and close over its   *)
(* `album`; setAlbum (lines 217-226) queues one updater per call and the   *)
(* updaters run in call order, each on the result of the one before.       *)
(***************************************************************************)
\* A call m of a mutation: what setAlbum is given, resolved against prev.
\* addAsset, updateAsset and removeAsset pass an aggregate built from the
\* closure's album (lines 305-341); addMediaByUrl passes an updater of prev
\* (lines 520-524).
Resolved(m, closure, prev, id, stamp) ==
    [ (CASE m.op = "updateAsset" ->
              [closure EXCEPT !.pages =
                  updateAssetPages(closure.pages, m.pageId, m.assetId, m.updates)]
         [] m.op = "removeAsset" ->
              [closure EXCEPT !.pages =
                  MapPage(closure.pages, m.pageId,
                      LAMBDA p : [p EXCEPT !.assets =
                                     SelectSeq(@, LAMBDA a : a.id # m.assetId)])]
         [] m.op = "addMediaByUrl" ->
              [prev EXCEPT !.unplacedMedia =
                  Append(@, MkAsset(id, "image", "url", 0, 0, 400, 300, 1))])
      EXCEPT !.updatedAt = stamp ]

\* The mutations a handler of the model calls on page pageId.
Mutations(pageId) ==
    {[op |-> "updateAsset", pageId |-> pageId, assetId |-> a, updates |-> u] :
        a \in AssetArgsOn(pageId) \ {-1}, u \in AssetUpdates}
    \cup {[op |-> "removeAsset", pageId |-> pageId, assetId |-> a, updates |-> [x |-> 0]] :
            a \in AssetArgsOn(pageId) \ {-1}}
    \cup {[op |-> "addMediaByUrl", pageId |-> pageId, assetId |-> -1, updates |-> [x |-> 0]]}

\* A handler that calls one mutation.
handlerCallsOne(m) ==
    /\ album # Null
    /\ ~album.config.isLocked
    /\ lastOp' = Op("handlerOne")
    /\ SetAlbum(Resolved(m, album, album, nextId, clock + 1))
    /\ nextId' = nextId + 1
    /\ selectedAssetId' = IF m.op = "removeAsset" /\ selectedAssetId = Some(m.assetId)
                          THEN None ELSE selectedAssetId
    /\ callIn' = None
    /\ UNCHANGED <<currentPageIndex, upload, layoutVars, callOut, backendVars>>

\* A handler that calls m1 and then m2.  The first updater replaces the album
\* by r1 and pushes the album; the second replaces r1 by r2 and pushes r1.
\* callIn records the calls made.
handlerCallsTwo(m1, m2) ==
    /\ album # Null
    /\ ~album.config.isLocked
    /\ LET r1 == Resolved(m1, album, album, nextId, clock + 1)
           r2 == Resolved(m2, album, r1, nextId + 1, clock + 2)
       IN  /\ album' = r2
           /\ history' = PushHistory(PushHistory(history, album), r1)
           /\ redoStack' = <<>>
           /\ made' = SubSeq(made, 1, pos) \o <<r1, r2>>
           /\ pos' = pos + 2
           /\ branches' = IF redoStack # <<>> THEN branches + 1 ELSE branches
    /\ clock' = clock + 2
    /\ nextId' = nextId + 2
    /\ lastOp' = Op("handlerTwo")
    /\ selectedAssetId' =
          IF \E m \in {m1, m2} : m.op = "removeAsset" /\ selectedAssetId = Some(m.assetId)
          THEN None ELSE selectedAssetId
    /\ callIn' = Some([fn |-> "handler", before |-> album, first |-> m1,
                       second |-> m2, id |-> nextId])
    /\ UNCHANGED <<currentPageIndex, upload, layoutVars, callOut, backendVars>>

\* Handlers on the loaded album, and undo and redo between them.
NextPair ==
    \/ Ev(\E id \in {"A", "B"} : fetchAlbum(id))
    \/ clock < MaxEdits /\ \E p \in PageArgs \ {-1} : \E m \in Mutations(p) :
            handlerCallsOne(m)
    \/ clock + 1 < MaxEdits /\ \E p \in PageArgs \ {-1} : \E m1, m2 \in Mutations(p) :
            handlerCallsTwo(m1, m2)
    \/ undo /\ UNCHANGED otherVars
    \/ redo /\ UNCHANGED otherVars

SpecPair == Init /\ [][NextPair]_vars

(***************************************************************************)
(* fetchAlbum on stored page rows of any numbering: album "B" holds any    *)
(* of its three page rows, each under any of the numbers of StoredNumbers  *)
(* (a gap after 2, the same number twice, a number of the shifted range).  *)
(***************************************************************************)
StoredNumbers == {1, 2, 5, ShiftBase + 2}

\* The page tables the loads of the model start from.
PageTables ==
    {{[id |-> StoredPageRows("B")[i].id, album_id |-> "B",
       page_number |-> f[i],
       template_id |-> StoredPageRows("B")[i].template_id,
       background_color |-> StoredPageRows("B")[i].background_color] : i \in S} :
        f \in [1..3 -> StoredNumbers], S \in SUBSET (1..3)}

InitFetch ==
    /\ album = Null
    /\ history = <<>>
    /\ redoStack = <<>>
    /\ currentPageIndex = 0
    /\ selectedAssetId = None
    /\ nextId = 1
    /\ clock = 0
    /\ upload = None
    /\ lastOp = [name |-> "init", locked |-> FALSE, redoLen |-> 0]
    /\ made = <<>>
    /\ pos = 0
    /\ branches = 0
    /\ db \in {[DbOf({"A", "B"}) EXCEPT !.pages = t] : t \in PageTables}
    /\ saveCall = NoSave
    /\ isSaving = FALSE
    /\ layoutIn = None
    /\ layoutOut = <<>>
    /\ callIn = None
    /\ callOut = None

NextFetch ==
    \/ clock < MaxLoads /\ fetchAlbum("A") /\ UNCHANGED otherVars
    \/ clock < MaxLoads /\ fetchAlbum("B") /\ UNCHANGED otherVars

SpecFetch == InitFetch /\ [][NextFetch]_vars

(***************************************************************************)
(* uploadMedia file by file (lines 391-487).  Every file of the model is   *)
(* an image above the compression threshold, so each file is compressed,   *)
(* uploaded and, when the upload gave a url, decoded.  callIn is the file  *)
(* the loop is at and the await it is suspended on (None between two       *)
(* files); callOut is the list of the awaits that resolved, in the order   *)
(* they resolved.                                                          *)
(***************************************************************************)
\* The 1-based index of the file the loop is at.
FileIndex ==
    1 + Cardinality({i \in 1..Len(callOut) : callOut[i].done})

Resolved_(step, outcome, done) ==
    [file |-> FileIndex, step |-> step, outcome |-> outcome, done |-> done,
     asset |-> IF step = "decode" /\ outcome = "load" THEN nextId ELSE NoId]

\* An await of the loop resolved and the loop is suspended on the next one.
UploadStep(newCallIn, event) ==
    /\ callIn' = newCallIn
    /\ callOut' = Append(callOut, event)
    /\ lastOp' = Op("uploadMedia")
    /\ UNCHANGED <<album, history, redoStack, currentPageIndex, selectedAssetId,
                   nextId, clock, upload, made, pos, branches, layoutVars,
                   backendVars>>

\* Lines 383-391: the call, with a batch of nFiles files.
uploadBegin(nFiles) ==
    /\ callIn = None
    /\ uploadMediaStart(nFiles)
    /\ callIn' = None
    /\ callOut' = <<>>
    /\ UNCHANGED <<layoutVars, db, saveCall>>

\* Lines 397-412: compressImage resolved, or threw and the catch took the
\* original file.
compressFile(outcome) ==
    /\ upload # None
    /\ upload[1].files > 0
    /\ callIn = None
    /\ UploadStep(Some([fn |-> "uploadMedia", pc |-> "upload",
                        original |-> (outcome = "error")]),
                  Resolved_("compress", outcome, FALSE))

\* Lines 415-427 and 483-485: storageService.uploadFile resolved, with a url
\* or with an error; it never rejects.  Without a url the file is done.
uploadFile(outcome) ==
    /\ callIn # None
    /\ callIn[1].fn = "uploadMedia"
    /\ callIn[1].pc = "upload"
    /\ IF outcome = "ok"
       THEN UploadStep(Some([callIn[1] EXCEPT !.pc = "decode"]),
                       Resolved_("upload", outcome, FALSE))
       ELSE /\ uploadMediaFile(FALSE)
            /\ callIn' = None
            /\ callOut' = Append(callOut, Resolved_("upload", outcome, TRUE))
            /\ UNCHANGED <<layoutVars, db, saveCall>>

\* Lines 434-481: the image of the url loaded (onload resolves the promise and
\* the asset is pushed), or failed to load: the promise has no onerror and
\* never resolves.
imageDecode(outcome) ==
    /\ callIn # None
    /\ callIn[1].fn = "uploadMedia"
    /\ callIn[1].pc = "decode"
    /\ IF outcome = "load"
       THEN /\ uploadMediaFile(TRUE)
            /\ callIn' = None
            /\ callOut' = Append(callOut, Resolved_("decode", outcome, TRUE))
            /\ UNCHANGED <<layoutVars, db, saveCall>>
       ELSE UploadStep(Some([callIn[1] EXCEPT !.pc = "onload"]),
                       Resolved_("decode", outcome, FALSE))

\* Lines 489-504: the end of the batch.
uploadEnd ==
    /\ uploadMediaFinish
    /\ UNCHANGED <<layoutVars, callVars, db, saveCall>>

\* An event that builds an aggregate, leaving room for the end of the batch
\* in flight.
EvBatch(A) ==
    /\ clock + (IF upload # None THEN 1 ELSE 0) < MaxEdits
    /\ A
    /\ UNCHANGED otherVars

NextUpload ==
    \/ EvBatch(\E id \in {"A", "B"} : fetchAlbum(id))
    \/ EvBatch(addMediaByUrl("url", "image"))
    \/ clock < MaxEdits /\ \E n \in 1..MaxBatch : uploadBegin(n)
    \/ \E o \in Outcomes : compressFile(o)
    \/ \E o \in Outcomes : uploadFile(o)
    \/ \E o \in {"load", "error"} : imageDecode(o)
    \/ uploadEnd

SpecUpload == Init /\ [][NextUpload]_vars

\* The same, where a step that can be taken is taken in the end.
SpecUploadFair == SpecUpload /\ WF_vars(NextUpload)

(***************************************************************************)
(* The operations that create, copy and move assets, with updatePageAssets *)
(* fed with what calculateLayoutApplication returns for two neighbouring   *)
(* pages (or for the last page alone).                                     *)
(***************************************************************************)
\* Spread templates: a slot on each side, and two slots on the left side.
SpreadLayouts ==
    { [name |-> "spread-1-1", is_spread |-> TRUE,
       config |-> <<Slot(Some(10), None, 1), Slot(Some(120), None, 2)>>],
      [name |-> "spread-2-0", is_spread |-> TRUE,
       config |-> <<Slot(Some(10), None, 1), Slot(None, Some(60), 2)>>] }

\* prev => ({ ...prev, pages: prev.pages.map(p => p.id === pageId ?
\* { ...p, assets: newAssets } : p), updatedAt }), lines 649-656.
updatePageAssetsOn(prev, update, stamp) ==
    [prev EXCEPT
        !.pages = MapPage(@, update.pageId,
                          LAMBDA p : [p EXCEPT !.assets = update.assets]),
        !.updatedAt = stamp]

\* One handler: the layout engine on pages i and i + 1, then updatePageAssets
\* for every LayoutUpdate returned; the updaters run in call order, each on
\* the aggregate the one before it left.
applySpreadLayout(i, withRight, layout) ==
    /\ album # Null
    /\ i \in 1..Len(album.pages)
    /\ withRight => i < Len(album.pages)
    /\ IF album.config.isLocked THEN Noop("updatePageAssets")
       ELSE LET res == calculateLayoutApplication(layout, Some(album.pages[i]),
                           IF withRight THEN Some(album.pages[i + 1]) ELSE None,
                           None, nextId)
                r1 == updatePageAssetsOn(album, res.updates[1], clock + 1)
                two == Len(res.updates) = 2
                r2 == IF two THEN updatePageAssetsOn(r1, res.updates[2], clock + 2)
                      ELSE r1
            IN  /\ album' = r2
                /\ history' = IF two THEN PushHistory(PushHistory(history, album), r1)
                              ELSE PushHistory(history, album)
                /\ redoStack' = <<>>
                /\ made' = IF two THEN SubSeq(made, 1, pos) \o <<r1, r2>>
                           ELSE Append(SubSeq(made, 1, pos), r1)
                /\ pos' = pos + Len(res.updates)
                /\ branches' = IF redoStack # <<>> THEN branches + 1 ELSE branches
                /\ clock' = clock + Len(res.updates)
                /\ nextId' = res.idSource
                /\ lastOp' = Op("updatePageAssets")
                /\ UNCHANGED <<currentPageIndex, selectedAssetId, upload>>

\* The places of the pages a spread can start at.
SpreadStarts == IF album = Null THEN {} ELSE 1..Len(album.pages)

EvOwn(A) == clock < MaxOwnEdits /\ A /\ UNCHANGED otherVars

EvOwnUpload(A) ==
    clock < MaxOwnEdits /\ A /\ UNCHANGED <<layoutVars, callVars, db, saveCall>>

NextOwn ==
    \/ EvOwn(\E id \in {"A", "B"} : fetchAlbum(id))
    \/ EvOwn(\E p \in PageArgs, a \in NewAssets : addAsset(p, a))
    \/ EvOwn(\E p \in PageArgs : \E a \in AssetArgsOn(p) : duplicateAsset(p, a))
    \/ EvOwn(\E p \in PageArgs : duplicatePage(p))
    \/ EvOwn(addMediaByUrl("url", "image"))
    \/ EvOwn(\E a \in LibraryArgs, p \in PageArgs : moveFromLibrary(a, p))
    \/ EvOwn(\E f \in PageArgs : \E a \in AssetArgsOn(f), t \in PageArgs :
                moveAssetToPage(a, f, t, 5, 5))
    \/ EvOwn(\E p \in PageArgs, a \in AssetArgs : removeAsset(p, a))
    \/ /\ clock + 2 <= MaxOwnEdits
       /\ \E i \in SpreadStarts, w \in BOOLEAN, layout \in SpreadLayouts :
             applySpreadLayout(i, w, layout)
       /\ UNCHANGED otherVars
    \/ EvOwnUpload(uploadMediaStart(MaxFiles))
    \/ EvOwnUpload(\E ok \in BOOLEAN : uploadMediaFile(ok))
    \/ EvOwnUpload(uploadMediaFinish)

SpecOwn == Init /\ [][NextOwn]_vars

\* C11: whenever the left edge x of the dragged rectangle is less than 1 away
\* from a column boundary c = i * 100 / 12 of the canvas, findSnappingPoints
\* returns snappedX = c and a vertical guide at c.
C11_LeftEdgeSnapsToColumn ==
    (callIn # None /\ callIn[1].fn = "findSnappingPoints" /\ callOut # None) =>
        \A i \in 0..(IF callIn[1].nextPage THEN 24 ELSE 12) :
            Abs(callIn[1].rect.x - i * ColWidth) < SnapUnit =>
                /\ callOut[1].snappedX = i * ColWidth
                /\ \E k \in 1..Len(callOut[1].guides) :
                      callOut[1].guides[k] = [type |-> "v", pos |-> i * ColWidth]

NormCalled == callIn # None /\ callIn[1].fn = "normalizePageData" /\ callOut # None

\* C12: for a record whose layout_config is an empty array and whose assets
\* list has n >= 1 rows, normalizePageData returns a unified-schema page with
\* exactly n layoutConfig items and no assets, the i-th item taking its id,
\* left, top, width, height, zIndex and content.url from the i-th row's id, x,
\* y, width, height, z_index and url.  Stated for the records that give no
\* other layout source (no layout_json, content or text_layers), where the
\* assets list alone decides the result.
C12_AssetsBecomeLayoutItems ==
    LET p == callIn[1].p
        rows == Get(p, "assets")
    IN  (NormCalled /\ Get(p, "layout_config") = JArr(<<>>)
            /\ Get(p, "layout_json") = Undef /\ Get(p, "content") = Undef
            /\ Get(p, "text_layers") = Undef
            /\ IsArray(rows) /\ Len(rows.items) >= 1
            /\ \A i \in 1..Len(rows.items) : rows.items[i].t = "object") =>
            /\ ~callOut[1].threw
            /\ "pageStyles" \in DOMAIN callOut[1].page
            /\ callOut[1].page.assets = <<>>
            /\ Len(callOut[1].page.layoutConfig) = Len(rows.items)
            /\ \A i \in 1..Len(rows.items) :
                  LET item == callOut[1].page.layoutConfig[i]
                      row == rows.items[i]
                  IN  /\ item.id = Get(row, "id")
                      /\ item.left = Get(row, "x")
                      /\ item.top = Get(row, "y")
                      /\ item.width = Get(row, "width")
                      /\ item.height = Get(row, "height")
                      /\ item.zIndex = Get(row, "z_index")
                      /\ item.content.url = Get(row, "url")

\* The type the upgrade rule gives an asset row.
ClaimedType(row) ==
    LET config == Get(row, "config")
    IN  IF Truthy(OptGet(config, "originalType")) THEN OptGet(config, "originalType")
        ELSE IF Get(row, "asset_type") = JStr("image") /\ Truthy(OptGet(config, "mapConfig"))
        THEN JStr("map")
        ELSE IF Get(row, "asset_type") = JStr("text")
                /\ (Truthy(OptGet(config, "location")) \/ Truthy(OptGet(config, "isLocation")))
        THEN JStr("location")
        ELSE Get(row, "asset_type")

\* C13: on the legacy path the type of each resulting asset is
\* config.originalType when set, else map for an image with config.mapConfig,
\* else location for a text with config.location or config.isLocation, else
\* the stored asset_type.
C13_LegacyTypeRestored ==
    (NormCalled /\ ~isUnified(callIn[1].p) /\ ~callOut[1].threw) =>
        \A i \in 1..Len(callOut[1].page.assets) :
            Get(callOut[1].page.assets[i], "type")
                = ClaimedType(Get(callIn[1].p, "assets").items[i])

\* C14: normalizePageData returns a page and raises no exception, whatever is
\* given for layout_config, layout_json, content, text_layers and assets.
C14_NeverThrows == NormCalled => ~callOut[1].threw

\* The asset assetId on page pageId of aggregate a, if it is there.
AssetsOn(a, pageId) ==
    UNION {Range(a.pages[i].assets) : i \in {k \in 1..Len(a.pages) : a.pages[k].id = pageId}}

\* A successful saveAlbum, then a fetchAlbum of the same album.
SavedThenLoaded ==
    /\ lastOp.name = "fetchAlbum"
    /\ saveCall.pc = "done"
    /\ saveCall.result = Some([success |-> TRUE])
    /\ album # Null
    /\ album.id = saveCall.album.id

\* C15: two assets of one page with zIndex(a) < zIndex(b) in memory are, after
\* a successful saveAlbum and a fetchAlbum of the same album, loaded on that
\* page with zIndex(a) < zIndex(b).
C15_ZOrderSurvivesRoundTrip ==
    SavedThenLoaded =>
        \A i \in 1..Len(saveCall.album.pages) :
            \A a, b \in Range(saveCall.album.pages[i].assets) :
                a.zIndex < b.zIndex =>
                    \E la, lb \in AssetsOn(album, saveCall.album.pages[i].id) :
                        /\ la.id = a.id
                        /\ lb.id = b.id
                        /\ la.zIndex < lb.zIndex

\* A round trip of a page with two assets, one of them moved to the back
\* (zIndex below every other, at most -1) before the save.
C15_Witness ==
    /\ SavedThenLoaded
    /\ \E i \in 1..Len(saveCall.album.pages) :
          \E a, b \in Range(saveCall.album.pages[i].assets) :
              a.zIndex < 0 /\ b.zIndex > 0

SaveSucceeded ==
    saveCall.pc = "done" /\ saveCall.result = Some([success |-> TRUE])

\* C16: after a saveAlbum that returns success, on a store without cascading
\* deletes (the store of this model), the stored page rows of the album are
\* exactly the in-memory pages, and the stored asset rows attached to the
\* album's stored or previously stored pages are exactly the in-memory page
\* assets.
C16_StoreMatchesMemoryAfterSave ==
    SaveSucceeded =>
        /\ {r \in db.pages : r.album_id = saveCall.album.id}
              = Range(pagesPayload(saveCall.album))
        /\ {r \in db.assets :
                r.page_id \in saveCall.stored \cup currentPageIds(saveCall.album)}
              = assetsPayload(saveCall.album)

\* C17: during the two-pass page upsert of saveAlbum, after each row write, no
\* two stored page rows of the album have the same page_number.
C17_NoDuplicatePageNumber ==
    (saveCall.pc # "idle" /\ saveCall.album # Null) =>
        \A r1, r2 \in {r \in db.pages : r.album_id = saveCall.album.id} :
            r1.page_number = r2.page_number => r1.id = r2.id

\* The place of a backend call in the sequence of saveAlbum.
CallOrder(call) ==
    CASE call = "albumUpdate" -> 1
      [] call = "selectPages" -> 2
      [] call = "deletePages" -> 3
      [] call = "selectAssets" -> 4
      [] call = "deleteAssets" -> 5
      [] call = "shiftPages" -> 6
      [] call = "upsertPages" -> 7
      [] call = "upsertAssets" -> 8

\* C18: the backend calls of one save are issued in the order of the
\* sequence, each after the previous one resolved; when one reports an error
\* no later call is issued, saveAlbum resolves to {success: false} and
\* isSaving is false afterwards.
C18_ErrorEndsTheSave ==
    LET calls == saveCall.calls
    IN  /\ \A i, j \in 1..Len(calls) :
              i < j => CallOrder(calls[i].call) < CallOrder(calls[j].call)
        /\ \A i \in 1..Len(calls) :
              calls[i].outcome = "error" =>
                  /\ i = Len(calls)
                  /\ saveCall.pc = "done"
                  /\ saveCall.result = Some([success |-> FALSE])
                  /\ ~isSaving

\* An error of the second pass, after six calls went through.
C18_Witness ==
    /\ Len(saveCall.calls) >= 6
    /\ saveCall.calls[Len(saveCall.calls)] = [call |-> "upsertPages", outcome |-> "error"]
    /\ ~isSaving

\* C19: when the album update of saveAlbum affects zero rows without a backend
\* error, saveAlbum reports success false.
C19_ZeroRowUpdateIsAnError ==
    (saveCall.pc = "done"
        /\ \E i \in 1..Len(saveCall.calls) :
              saveCall.calls[i] = [call |-> "albumUpdate", outcome |-> "zeroRows"]) =>
        saveCall.result = Some([success |-> FALSE])

\* C20: no step of a saveAlbum call, and no fetchAlbum call that fails,
\* changes the album, the undo stack, the redo stack, currentPageIndex or
\* selectedAssetId; a failed call leaves them as they were before the call.
C20_FailedCallKeepsEditorState ==
    [][(lastOp'.name \in {"saveAlbum", "fetchAlbumFailed"}) =>
            UNCHANGED <<album, history, redoStack, currentPageIndex,
                        selectedAssetId>>]_vars

\* A failed load that follows a failed save of an edited album.
C20_Witness ==
    /\ lastOp.name = "fetchAlbumFailed"
    /\ album # Null
    /\ history # <<>>
    /\ saveCall.result = Some([success |-> FALSE])
    /\ Len(saveCall.calls) >= 2

(***************************************************************************)
(* Properties of covers, of the lock and of stored coordinates.            *)
(***************************************************************************)
IsCover(page) == page.layoutTemplate \in {"cover-front", "cover-back"}

\* C21: in every album state the store reaches, for every index i, getSpread(i)
\* is a single page when page i is a cover page, and a result of two pages
\* holds no cover page.
C21_CoverAlwaysSolo ==
    album # Null =>
        \A i \in 0..(Len(album.pages) - 1) :
            LET s == getSpread(album, i)
            IN  /\ IsCover(album.pages[i + 1]) => s = <<album.pages[i + 1]>>
                /\ Len(s) = 2 => ~IsCover(s[1]) /\ ~IsCover(s[2])

\* The asset upsert of a save went through.
AssetsWritten ==
    /\ saveCall.pc = "done"
    /\ saveCall.calls # <<>>
    /\ Last(saveCall.calls) = [call |-> "upsertAssets", outcome |-> "ok"]

\* C22: every asset row written by saveAlbum has config.x and config.y within
\* 0..100 of its owning page, whatever duplicateAsset, drag ends, moves between
\* pages, moves from the library and resizes came before the save.
C22_SavedCoordinatesInRange ==
    AssetsWritten =>
        \A r \in db.assets :
            r.id \in currentAssetIds(saveCall.album) =>
                r.config.x \in 0..100 /\ r.config.y \in 0..100

\* C23: the value of album.config.isLocked of the loaded album changes only
\* in a toggleLock step: no undo, redo, updateConfig, edit or fetchAlbum of
\* the album already loaded takes it from locked to unlocked or back.
C23_OnlyToggleLockChangesLock ==
    [][(album # Null /\ album' # Null /\ album'.id = album.id
            /\ album'.config.isLocked # album.config.isLocked)
          => lastOp'.name = "toggleLock"]_vars

\* The album opens with a front cover and closes with a back cover.
HasCovers(a) ==
    /\ a # Null
    /\ Len(a.pages) >= 2
    /\ a.pages[1].layoutTemplate = "cover-front"
    /\ a.pages[Len(a.pages)].layoutTemplate = "cover-back"

\* C24: in an album whose first page is a front cover and whose last page is a
\* back cover, a removePage, movePage or reorderPages call, whatever its
\* arguments, leaves the same cover page at index 0 and the same cover page at
\* the last index.
C24_CoversStayInPlace ==
    [][(HasCovers(album)
            /\ lastOp'.name \in {"removePage", "movePage", "reorderPages"})
          => /\ album'.pages[1].id = album.pages[1].id
             /\ album'.pages[Len(album'.pages)].id = album.pages[Len(album.pages)].id]_vars

\* C25: no step of a store operation changes the pages or the unplacedMedia
\* of the loaded album while its config.isLocked is true, the completion of an
\* uploadMedia batch that began before the album was locked included.  (A
\* fetchAlbum step replaces the aggregate by the stored one and is not an
\* edit of it.)
C25_LockedAlbumKeepsContent ==
    [][(IsLocked /\ album' # Null /\ lastOp'.name # "fetchAlbum")
          => /\ album'.pages = album.pages
             /\ album'.unplacedMedia = album.unplacedMedia]_vars

\* An aggregate without its time stamp.
Content(a) == [a EXCEPT !.updatedAt = 0]

\* C26: when a handler has called two mutations one after the other, the
\* album is the aggregate that results from the first mutation with the
\* second applied on top of it, and one undo gives the aggregate after the
\* first mutation alone.
C26_BothMutationsApplied ==
    (lastOp.name = "handlerTwo" /\ callIn # None) =>
        LET c == callIn[1]
            afterFirst == Resolved(c.first, c.before, c.before, c.id, 0)
            afterBoth == Resolved(c.second, afterFirst, afterFirst, c.id + 1, 0)
        IN  /\ Content(album) = Content(afterBoth)
            /\ Content(UndoResult(album, history, redoStack)[1]) = Content(afterFirst)

\* The stored page rows of the loaded album.
StoredRowsOfAlbum == {r \in db.pages : r.album_id = album.id}

\* The stored number of the page with this id.
StoredNumberOf(id) == (CHOOSE r \in StoredRowsOfAlbum : r.id = id).page_number

\* C27: the pages fetchAlbum produces are the stored page rows of the album,
\* numbered 1..N, in ascending order of their stored page_number whatever
\* these numbers are; with no stored page row they are four pages with the
\* templates cover-front, freeform, freeform, cover-back numbered 1 to 4.
C27_FetchRenumbers ==
    lastOp.name = "fetchAlbum" =>
        /\ \A i \in 1..Len(album.pages) : album.pages[i].pageNumber = i
        /\ IF StoredRowsOfAlbum = {}
           THEN [i \in 1..Len(album.pages) |-> album.pages[i].layoutTemplate]
                    = <<"cover-front", "freeform", "freeform", "cover-back">>
           ELSE /\ Len(album.pages) = Cardinality(StoredRowsOfAlbum)
                /\ {album.pages[i].id : i \in 1..Len(album.pages)}
                      = {r.id : r \in StoredRowsOfAlbum}
                /\ \A i, j \in 1..Len(album.pages) :
                      i < j => StoredNumberOf(album.pages[i].id)
                                  <= StoredNumberOf(album.pages[j].id)

\* A load of three rows of which two have the same number and one a number of
\* the shifted range, stored in another order than the order of their ids.
C27_Witness ==
    /\ lastOp.name = "fetchAlbum"
    /\ Cardinality(StoredRowsOfAlbum) = 3
    /\ \E r1, r2 \in StoredRowsOfAlbum : r1.id # r2.id /\ r1.page_number = r2.page_number
    /\ \E r \in StoredRowsOfAlbum : r.page_number > ShiftBase
    /\ album.pages[1].id > album.pages[3].id

(***************************************************************************)
(* Properties of uploadMedia, stated on the awaits that resolved           *)
(* (callOut) and on the step that ends the batch.                          *)
(***************************************************************************)
StepOrder(step) ==
    CASE step = "compress" -> 1 [] step = "upload" -> 2 [] step = "decode" -> 3

\* The files whose upload gave a url.
UploadedFiles ==
    {callOut[i].file : i \in {k \in 1..Len(callOut) :
                                callOut[k].step = "upload" /\ callOut[k].outcome = "ok"}}

\* The file the asset with this id was made for (0 when for none).
FileOfAsset(id) ==
    IF \E i \in 1..Len(callOut) : callOut[i].asset = id /\ id # NoId
    THEN callOut[CHOOSE i \in 1..Len(callOut) : callOut[i].asset = id].file
    ELSE 0

\* The awaits resolve file after file, and for each file in the order
\* compression, upload, decoding; nothing of a file resolves before the
\* upload of the file before it has.
FilesInListOrder ==
    /\ \A i, j \in 1..Len(callOut) :
          i < j => \/ callOut[i].file < callOut[j].file
                   \/ /\ callOut[i].file = callOut[j].file
                      /\ StepOrder(callOut[i].step) < StepOrder(callOut[j].step)
    /\ \A j \in 1..Len(callOut) :
          \A k \in 1..(callOut[j].file - 1) :
              \E i \in 1..(j - 1) : callOut[i].file = k /\ callOut[i].step = "upload"

\* C28: uploadMedia handles the files of a batch in list order, one after the
\* other; a file whose upload fails adds no asset and the files after it are
\* still handled; the step that ends the batch extends unplacedMedia, in one
\* state change, by exactly one asset per file whose upload gave a url, in
\* file order.
C28_BatchInFileOrder ==
    /\ [](upload # None => FilesInListOrder)
    /\ [][(lastOp'.name = "uploadMediaFinish") =>
            LET added == upload[1].uploadedAssets
            IN  /\ album'.unplacedMedia = album.unplacedMedia \o added
                /\ Len(added) = Cardinality(UploadedFiles)
                /\ \A i \in 1..Len(added) : FileOfAsset(added[i].id) \in UploadedFiles
                /\ \A i, j \in 1..Len(added) :
                      i < j => FileOfAsset(added[i].id) < FileOfAsset(added[j].id)
                /\ {callOut[i].file : i \in 1..Len(callOut)}
                      = 1..Cardinality({i \in 1..Len(callOut) : callOut[i].done})]_vars

\* A batch of two files has ended: the upload of the first failed after its
\* compression failed, the second gave the one asset that was added.
C28_Witness ==
    /\ lastOp.name = "uploadMediaFinish"
    /\ Len(callOut) = 5
    /\ callOut[1].outcome = "error"
    /\ callOut[2].outcome = "error"
    /\ UploadedFiles = {2}
    /\ album.unplacedMedia # <<>>
    /\ FileOfAsset(Last(album.unplacedMedia).id) = 2

\* C29: every uploadMedia call completes in the end and sets isSaving back to
\* false, whatever the outcome of each file's compression, upload and
\* decoding.
C29_UploadCompletes == isSaving ~> ~isSaving

\* The largest and the smallest zIndex among the assets of a page.
PageMaxZ(assets) ==
    LET zs == {assets[i].zIndex : i \in 1..Len(assets)}
    IN  CHOOSE m \in zs : \A z \in zs : z <= m

PageMinZ(assets) ==
    LET zs == {assets[i].zIndex : i \in 1..Len(assets)}
    IN  CHOOSE m \in zs : \A z \in zs : z >= m

\* C30: updateAssetZIndex gives the asset the largest zIndex of its page plus
\* 1 (front) or the smallest zIndex of its page minus 1 (back), whatever the
\* signs of the zIndex values on the page, and changes no other zIndex.
C30_ZIndexNextToExtremes ==
    [][(lastOp'.name = "updateAssetZIndex" /\ album' # album) =>
        /\ Len(album'.pages) = Len(album.pages)
        /\ \A p \in 1..Len(album.pages) :
              LET old == album.pages[p].assets
                  new == album'.pages[p].assets
                  moved == {i \in 1..Len(old) : new[i].zIndex # old[i].zIndex}
              IN  /\ Len(new) = Len(old)
                  /\ Cardinality(moved) <= 1
                  /\ \A i \in moved :
                        new[i].zIndex \in {PageMaxZ(old) + 1, PageMinZ(old) - 1}]_vars

(***************************************************************************)
(* Properties of the schema detection and of the partition of the items.   *)
(***************************************************************************)
\* A column of the record holds a value.
Present(p, column) == ~Nullish(Get(p, column))

AnyLayoutColumn(p) ==
    Present(p, "layout_config") \/ Present(p, "layout_json") \/ Present(p, "content")

\* C31: a record with a value in at least one of layout_config, layout_json
\* and content is read as unified schema (page styles, layoutConfig and
\* textLayers from the items, no assets), also when each value parses to an
\* empty array or to no array; a record with none of the three is read as
\* legacy schema (assets from the rows, layoutConfig and textLayers empty).
C31_PresenceSelectsSchema ==
    (NormCalled /\ ~callOut[1].threw) =>
        LET p == callIn[1].p
            page == callOut[1].page
        IN  /\ AnyLayoutColumn(p) <=> "pageStyles" \in DOMAIN page
            /\ AnyLayoutColumn(p) => page.assets = <<>>
            /\ ~AnyLayoutColumn(p) => page.layoutConfig = <<>> /\ page.textLayers = <<>>

\* Line 66 with lines 47-64: the layout items followed by the text layers.
MergedItems(p) ==
    LET rows == Get(p, "assets")
        layoutArray == layoutArrayOf(p)
    IN  (IF Len(layoutArray.items) = 0 /\ Truthy(rows) /\ LengthPositive(rows)
         THEN [i \in 1..Len(rows.items) |-> AssetFrame(rows.items[i])]
         ELSE layoutArray.items)
        \o Elements(textArrayOf(p))

IsText(item) == Get(item, "role") = JStr("text") \/ Get(item, "type") = JStr("text")

IdsOf(boxes) == [i \in 1..Len(boxes) |-> boxes[i].id]
ItemIds(items) == [i \in 1..Len(items) |-> OrJs(Get(items[i], "id"), Generated)]

\* C32: on the unified path each item of the merged list is in exactly one of
\* the two lists of the page: the items whose role or type is text make up
\* textLayers, all others make up layoutConfig, each list in the order of
\* the merged list.
C32_ItemsPartitioned ==
    (NormCalled /\ isUnified(callIn[1].p) /\ ~callOut[1].threw) =>
        LET items == MergedItems(callIn[1].p)
            page == callOut[1].page
        IN  /\ IdsOf(page.textLayers) = ItemIds(SelectSeq(items, IsText))
            /\ IdsOf(page.layoutConfig)
                  = ItemIds(SelectSeq(items, LAMBDA item : ~IsText(item)))
            /\ Len(page.layoutConfig) + Len(page.textLayers) = Len(items)

\* C33: after a successful saveAlbum and a fetchAlbum of the same album,
\* every saved page is loaded with the same set of asset ids, and every asset
\* with the same x, y, width, height and rotation and the same fitMode,
\* isPlaceholder, opacity and crop the editor had set.
C33_AssetsSurviveRoundTrip ==
    SavedThenLoaded =>
        \A i \in 1..Len(saveCall.album.pages) :
            LET saved == saveCall.album.pages[i]
                loaded == AssetsOn(album, saved.id)
            IN  /\ {la.id : la \in loaded} = {a.id : a \in Range(saved.assets)}
                /\ \A a \in Range(saved.assets) :
                      \E la \in loaded :
                          /\ la.id = a.id
                          /\ <<la.x, la.y, la.width, la.height, la.rotation>>
                                = <<a.x, a.y, a.width, a.height, a.rotation>>
                          /\ <<la.fitMode, la.isPlaceholder, la.opacity, la.crop>>
                                = <<a.fitMode, a.isPlaceholder, a.opacity, a.crop>>

(***************************************************************************)
(* Properties of the page list and of the page focus.                      *)
(***************************************************************************)
\* A page without its number.
Unnumbered(page) == [page EXCEPT !.pageNumber = 0]

\* The 1-based place addPage is to insert at: the first cover-back page if
\* there is one, else behind the last page.
InsertPlace(pages) ==
    IF \E i \in 1..Len(pages) : pages[i].layoutTemplate = "cover-back"
    THEN CHOOSE i \in 1..Len(pages) :
            /\ pages[i].layoutTemplate = "cover-back"
            /\ \A j \in 1..(i - 1) : pages[j].layoutTemplate # "cover-back"
    ELSE Len(pages) + 1

\* C34: addPage on an unlocked album inserts exactly two new pages without
\* assets right before the first cover-back page, or at the end when there is
\* none, keeps the existing pages in their order, and sets currentPageIndex
\* to the index of the first new page.
C34_AddPageInsertsPair ==
    [][(lastOp'.name = "addPage" /\ album # Null /\ ~album.config.isLocked) =>
        LET k == InsertPlace(album.pages)
            old == album.pages
            new == album'.pages
        IN  /\ Len(new) = Len(old) + 2
            /\ \A j \in {k, k + 1} :
                  /\ new[j].assets = <<>>
                  /\ \A i \in 1..Len(old) : old[i].id # new[j].id
            /\ new[k].id # new[k + 1].id
            /\ \A i \in 1..(k - 1) : Unnumbered(new[i]) = Unnumbered(old[i])
            /\ \A i \in k..Len(old) : Unnumbered(new[i + 2]) = Unnumbered(old[i])
            /\ currentPageIndex' = k - 1]_vars

\* addPage has put two pages in front of a back cover that other pages follow.
C34_Witness ==
    /\ lastOp.name = "addPage"
    /\ album # Null
    /\ currentPageIndex + 4 <= Len(album.pages)
    /\ album.pages[currentPageIndex + 1].assets = <<>>
    /\ album.pages[currentPageIndex + 2].assets = <<>>
    /\ album.pages[currentPageIndex + 3].layoutTemplate = "cover-back"

\* C35: whenever an album is loaded, currentPageIndex is an index of
\* album.pages, whatever page operations, undo, redo and fetchAlbum calls
\* came before.
C35_PageIndexValid ==
    album # Null => (0 <= currentPageIndex /\ currentPageIndex < Len(album.pages))

(***************************************************************************)
(* Exclusive ownership of assets.                                          *)
(***************************************************************************)
\* The ids of all assets of the aggregate, page after page, then the library.
RECURSIVE PageAssetIds(_)
PageAssetIds(pages) ==
    IF pages = <<>> THEN <<>>
    ELSE [i \in 1..Len(Head(pages).assets) |-> Head(pages).assets[i].id]
         \o PageAssetIds(Tail(pages))

AllAssetIds(a) ==
    PageAssetIds(a.pages) \o [i \in 1..Len(a.unplacedMedia) |-> a.unplacedMedia[i].id]

NoIdTwice(a) ==
    \A i, j \in 1..Len(AllAssetIds(a)) :
        i # j => AllAssetIds(a)[i] # AllAssetIds(a)[j]

\* C36: an asset id occurs at most once over the asset lists of all pages and
\* unplacedMedia together, and an asset that moveFromLibrary takes out of
\* unplacedMedia is on a page afterwards.
C36_AssetsOwnedOnce ==
    /\ [](album # Null => NoIdTwice(album))
    /\ [][(lastOp'.name = "moveFromLibrary" /\ album' # album) =>
            \A m \in Range(album.unplacedMedia) :
                (\A n \in Range(album'.unplacedMedia) : n.id # m.id) =>
                    PagesHolding(album', m.id) = 1]_vars

(***************************************************************************)
(* Properties of the stored album config.                                  *)
(***************************************************************************)
\* C37: the backend write of toggleLock changes, of the stored config of an
\* album, the key isLocked only: every other key, unplacedMedia as the last
\* successful saveAlbum wrote it among them, is the same before and after.
C37_LockWriteKeepsOtherKeys ==
    [][(lastOp'.name = "toggleLockWrite") =>
        \A id \in DOMAIN db.albums :
            \A key \in DOMAIN db.albums[id].config \ {"isLocked"} :
                db'.albums[id].config[key] = db.albums[id].config[key]]_vars

\* A saveAlbum call, an uploadMedia call is in flight.
SaveInFlight == saveCall.pc \notin {"idle", "done"}
UploadInFlight == upload # None

\* C38: isSaving is true whenever a saveAlbum call or an uploadMedia call is
\* in flight, also after one of two overlapping calls has finished.
C38_BusyWhileInFlight == (SaveInFlight \/ UploadInFlight) => isSaving

\* C39: every snapshot on the undo stack and on the redo stack is a state of
\* the album that is loaded, so that no undo brings back another album.
C39_StacksHoldLoadedAlbum ==
    album # Null =>
        \A snapshot \in Range(history) \cup Range(redoStack) : snapshot.id = album.id

(***************************************************************************)
(* saveAlbum works on the aggregate it was called with.                    *)
(***************************************************************************)
\* The page number aggregate a gives the page with this id.
NumberIn(a, id) == a.pages[FindIndexById(a.pages, id) + 1].pageNumber

\* What a step of the save wrote and deleted comes from aggregate a.
WritesFrom(a) ==
    /\ \A id \in DOMAIN db.albums :
          db'.albums[id] # db.albums[id] =>
              /\ id = a.id
              /\ db'.albums[id].config
                    = [a.config EXCEPT !.unplacedMedia = a.unplacedMedia]
    /\ \A r \in db'.pages \ db.pages :
          /\ r.id \in currentPageIds(a)
          /\ r.album_id = a.id
          /\ r.page_number \in {NumberIn(a, r.id), NumberIn(a, r.id) + ShiftBase}
    /\ \A r \in db.pages \ db'.pages :
          r.id \notin currentPageIds(a) => r.album_id = a.id
    /\ \A r \in db'.assets \ db.assets : r \in assetsPayload(a)
    /\ \A r \in db.assets \ db'.assets :
          r.id \notin currentAssetIds(a) => r.page_id \in currentPageIds(a)
    /\ \A r \in db'.pages : r.id \in currentPageIds(a) \/ r \in db.pages
    /\ {r.id : r \in db.pages \ db'.pages} \ currentPageIds(a)
          \subseteq {r.id : r \in {q \in db.pages : q.album_id = a.id}}

\* C40: the rows one saveAlbum call writes and the orphans it deletes are
\* computed from the aggregate that was current when the call began, and
\* store mutations made while the call waits on the backend change neither.
C40_SaveUsesAggregateOfCall ==
    [][/\ (saveCall'.n # saveCall.n /\ album # Null) => saveCall'.album = album
       /\ (SaveInFlight /\ saveCall'.n = saveCall.n) =>
              saveCall'.album = saveCall.album
       /\ (SaveInFlight /\ lastOp'.name = "saveAlbum") => WritesFrom(saveCall.album)
       /\ ~(SaveInFlight /\ lastOp'.name = "saveAlbum") => db' = db]_vars

\* A save has returned success after the store changed under it: the stored
\* asset rows of its pages are those of the aggregate it was called with,
\* not those of the current one.
C40_Witness ==
    /\ saveCall.pc = "done"
    /\ saveCall.result = Some([success |-> TRUE])
    /\ album # saveCall.album
    /\ currentAssetIds(album) # currentAssetIds(saveCall.album)
    /\ {r.id : r \in {q \in db.assets : q.page_id \in currentPageIds(saveCall.album)}}
          = currentAssetIds(saveCall.album)

====
